---- MODULE Spec2Model ----
(***************************************************************************)
(* A model of the transit-network core of goit-algo-hw-06:                 *)
(*   graph_utils/graph_builder.py  (stop clustering, graph assembly)       *)
(*   graph_utils/dijkstra.py       (edge weights, Dijkstra, all pairs)     *)
(*   graph_utils/pathfinding.py    (DFS, BFS)                              *)
(*                                                                         *)
(* Python strings (node names, timestamps) are sequences of one-character  *)
(* strings, so that strip(), split(':') and int() are computed and string  *)
(* comparison (the heap's tie-break) is lexicographic.  A networkx Graph   *)
(* is a record of its node list (insertion order), its adjacency lists     *)
(* (insertion order, which is the neighbor iteration order), its edge      *)
(* attribute dictionaries (keyed by the unordered pair) and its node       *)
(* attribute dictionaries.                                                 *)
(***************************************************************************)
EXTENDS Integers, Sequences, FiniteSets, TLC

VARIABLES
    G,             \* the nx.Graph the running call works on
    fn,            \* the function whose call is running
    start, end,    \* the arguments of a path search
    pc,            \* "run" while the call's loop runs, "done" once it returned or raised
    distances,     \* dijkstra_shortest_path: distances
    predecessors,  \* dijkstra_shortest_path: predecessors
    queue,         \* dijkstra_shortest_path: the heap; bfs_path: the deque
    stack,         \* dfs_path: stack
    visited,       \* dfs_path / bfs_path: visited
    parent,        \* dfs_path / bfs_path: parent
    result,        \* what the call returned or raised
    all_paths,     \* all_pairs_shortest_paths: all_paths
    ap_i, ap_j,    \* all_pairs_shortest_paths: the positions of start and end in nodes
    tables,        \* build_hvv_graph: the input tables and allowed_route_types
    bld,           \* build_hvv_graph: its locals (trip cursor, nodes, route_ids, times, i, ...)
    weight_func,   \* add_edge_weights: weight_func
    weight_type,   \* add_edge_weights: weight_type
    edges          \* add_edge_weights: what is left of G.edges()

vars == <<G, fn, start, end, pc, distances, predecessors, queue, stack, visited,
          parent, result, all_paths, ap_i, ap_j, tables, bld,
          weight_func, weight_type, edges>>

searchVars == <<distances, predecessors, queue, stack, visited, parent>>
allPairsVars == <<all_paths, ap_i, ap_j>>
buildVars == <<tables, bld>>
weightVars == <<weight_func, weight_type, edges>>

-----------------------------------------------------------------------------
(* Bounds of the model *)

\* number of nodes of the graphs the searches run on
NumNodes == 3
\* largest number of edges of those graphs
MaxEdges == 3
\* edge weights are drawn from 0..MaxWeight (or the attribute is missing)
MaxWeight == 2
\* largest number of stop_times rows of the two trips together, in the
\* inputs that vary the stops of the trips
MaxRows == 3

-----------------------------------------------------------------------------
(* Python values *)

\* None, where a node name (a sequence of characters) could stand
PyNone == <<"None">>

\* float('inf'): above every sum of weights the graphs of the model can hold
INF == 1000000000

\* The characters of the model in code-point order: Ord is a character's
\* position in it, which orders characters as Python's str comparison does.
CharOrder == <<" ", "+", "-", "0", "1", "2", "3", "4", "5", "6", "7", "8", "9", ":",
               "A", "B", "C", "D", "E", "Z", "_", "a", "x">>

Ord(c) == CHOOSE i \in 1..Len(CharOrder) : CharOrder[i] = c

\* str.__lt__: lexicographic comparison, a proper prefix is smaller
RECURSIVE StrLess(_, _)
StrLess(a, b) ==
    IF b = <<>> THEN FALSE
    ELSE IF a = <<>> THEN TRUE
    ELSE IF Head(a) = Head(b) THEN StrLess(Tail(a), Tail(b))
    ELSE Ord(Head(a)) < Ord(Head(b))

\* the elements of a list
Range(s) == {s[i] : i \in 1..Len(s)}

\* x in list
Contains(s, x) == \E i \in 1..Len(s) : s[i] = x

-----------------------------------------------------------------------------
(* networkx.Graph *)

\* nx.Graph()
EmptyGraph == [nodes |-> <<>>, adj |-> <<>>, eattr |-> <<>>, nattr |-> <<>>]

\* n in G
HasNode(g, n) == n \in DOMAIN g.adj

\* G.has_edge(u, v)
HasEdge(g, u, v) == u \in DOMAIN g.adj /\ Contains(g.adj[u], v)

\* the key of the attribute dictionary that G[u][v] and G[v][u] share
EdgeKey(u, v) == {u, v}

\* G.add_node(n, **attrs): a new node goes to the end of the node list
AddNode(g, n, attrs) ==
    IF HasNode(g, n)
    THEN [g EXCEPT !.nattr = (n :> (attrs @@ g.nattr[n])) @@ g.nattr]
    ELSE [g EXCEPT !.nodes = Append(g.nodes, n),
                   !.adj = (n :> <<>>) @@ g.adj,
                   !.nattr = (n :> attrs) @@ g.nattr]

\* G.add_edge(u, v, **attrs): missing endpoints are added (u first); a new
\* edge goes to the end of both adjacency lists; an existing edge keeps its
\* place and has its attributes updated
AddEdge(g, u, v, attrs) ==
    LET g1 == IF HasNode(g, u) THEN g ELSE AddNode(g, u, <<>>)
        g2 == IF HasNode(g1, v) THEN g1 ELSE AddNode(g1, v, <<>>)
    IN  IF HasEdge(g2, u, v)
        THEN [g2 EXCEPT !.eattr = (EdgeKey(u, v) :> (attrs @@ g2.eattr[EdgeKey(u, v)]))
                                  @@ g2.eattr]
        ELSE [g2 EXCEPT !.adj = IF u = v
                                THEN (u :> Append(g2.adj[u], v)) @@ g2.adj
                                ELSE (u :> Append(g2.adj[u], v)) @@
                                     (v :> Append(g2.adj[v], u)) @@ g2.adj,
                        !.eattr = (EdgeKey(u, v) :> attrs) @@ g2.eattr]

\* attrs.get(key, default)
Get(attrs, key, default) == IF key \in DOMAIN attrs THEN attrs[key] ELSE default

-----------------------------------------------------------------------------
(* dijkstra.py: dijkstra_shortest_path *)

\* the order of the heap's entries, Python's tuple comparison of (distance, node)
EntryLess(a, b) == a[1] < b[1] \/ (a[1] = b[1] /\ StrLess(a[2], b[2]))

\* C1 mutant: a plain list in place of the heap, popped in insertion order
HeapPushFifo(q, e) == Append(q, e)

\* heapq.heappush: the heap is kept as the sorted list of its entries, whose
\* head is the entry heappop returns
RECURSIVE HeapPush(_, _)
HeapPush(q, e) ==
    IF q = <<>> THEN <<e>>
    ELSE IF EntryLess(e, Head(q)) THEN <<e>> \o q
    ELSE <<Head(q)>> \o HeapPush(Tail(q), e)

\* lines 66-69: the state before the loop
DijkstraInit(g, s) ==
    [distances    |-> (s :> 0) @@ [n \in DOMAIN g.adj |-> INF],
     predecessors |-> [n \in DOMAIN g.adj |-> PyNone],
     queue        |-> << <<0, s>> >>]

\* lines 76-79: follow predecessors back from the target; <<>> stands for a
\* KeyError (a node that predecessors does not hold), which only a
\* non-empty path can never be
RECURSIVE PathBack(_, _)
PathBack(pred, n) ==
    IF n = PyNone THEN <<>>
    ELSE IF n \notin DOMAIN pred THEN <<PyNone>>
    ELSE PathBack(pred, pred[n]) \o <<n>>

\* C22 mutant: a distance that is no greater than the recorded one is pushed
RECURSIVE RelaxNonStrict(_, _, _, _, _)
RelaxNonStrict(g, st, cur, cur_d, nbrs) ==
    IF nbrs = <<>> THEN st
    ELSE LET neighbor == Head(nbrs)
             weight == Get(g.eattr[EdgeKey(cur, neighbor)], "weight", 1)
             new_distance == cur_d + weight
             st1 == IF new_distance <= st.distances[neighbor]
                    THEN [distances    |-> [st.distances EXCEPT ![neighbor] = new_distance],
                          predecessors |-> [st.predecessors EXCEPT ![neighbor] = cur],
                          queue        |-> HeapPush(st.queue, <<new_distance, neighbor>>)]
                    ELSE st
         IN  RelaxNonStrict(g, st1, cur, cur_d, Tail(nbrs))

\* C21 mutant: a shorter distance is recorded and pushed, but a neighbor that
\* has a predecessor keeps it
RECURSIVE RelaxKeepPredecessor(_, _, _, _, _)
RelaxKeepPredecessor(g, st, cur, cur_d, nbrs) ==
    IF nbrs = <<>> THEN st
    ELSE LET neighbor == Head(nbrs)
             weight == Get(g.eattr[EdgeKey(cur, neighbor)], "weight", 1)
             new_distance == cur_d + weight
             st1 == IF new_distance < st.distances[neighbor]
                    THEN [distances    |-> [st.distances EXCEPT ![neighbor] = new_distance],
                          predecessors |-> IF st.predecessors[neighbor] = PyNone
                                           THEN [st.predecessors EXCEPT ![neighbor] = cur]
                                           ELSE st.predecessors,
                          queue        |-> HeapPush(st.queue, <<new_distance, neighbor>>)]
                    ELSE st
         IN  RelaxKeepPredecessor(g, st1, cur, cur_d, Tail(nbrs))

\* lines 81-87: relax the neighbors of the popped node in iteration order
RECURSIVE Relax(_, _, _, _, _)
Relax(g, st, cur, cur_d, nbrs) ==
    IF nbrs = <<>> THEN st
    ELSE LET neighbor == Head(nbrs)
             weight == Get(g.eattr[EdgeKey(cur, neighbor)], "weight", 1)
             new_distance == cur_d + weight
             st1 == IF new_distance < st.distances[neighbor]
                    THEN [distances    |-> [st.distances EXCEPT ![neighbor] = new_distance],
                          predecessors |-> [st.predecessors EXCEPT ![neighbor] = cur],
                          queue        |-> HeapPush(st.queue, <<new_distance, neighbor>>)]
                    ELSE st
         IN  Relax(g, st1, cur, cur_d, Tail(nbrs))

\* lines 72-87: one iteration of the loop over a non-empty heap.  The value
\* is the state after it and, when the iteration returns or raises, the result.
DijkstraIter(g, e, st) ==
    LET current_distance == Head(st.queue)[1]
        current_node == Head(st.queue)[2]
        popped == [st EXCEPT !.queue = Tail(st.queue)]
    IN  IF current_node = e
        THEN LET path == PathBack(st.predecessors, current_node)
             IN  IF Head(path) = PyNone
                 THEN [st |-> popped, done |-> TRUE, res |-> [exc |-> "KeyError"]]
                 ELSE [st |-> popped, done |-> TRUE,
                       res |-> [exc |-> "", path |-> path, cost |-> st.distances[e]]]
        ELSE IF ~HasNode(g, current_node)
        THEN [st |-> popped, done |-> TRUE, res |-> [exc |-> "KeyError"]]
        ELSE [st |-> Relax(g, popped, current_node, current_distance, g.adj[current_node]),
              done |-> FALSE, res |-> [exc |-> ""]]

\* C5 mutant: the search that found no path reports the distance 0
DijkstraNoPathZero == [exc |-> "", path |-> <<>>, cost |-> 0]

\* line 90: the heap is empty; the empty path stands for None (no function
\* of the program returns an empty list)
DijkstraNoPath == [exc |-> "", path |-> <<>>, cost |-> INF]

\* dijkstra_shortest_path(G, start, end), run to its end
RECURSIVE DijkstraLoop(_, _, _)
DijkstraLoop(g, e, st) ==
    IF st.queue = <<>> THEN DijkstraNoPath
    ELSE LET it == DijkstraIter(g, e, st)
         IN  IF it.done THEN it.res ELSE DijkstraLoop(g, e, it.st)

dijkstra_shortest_path(g, s, e) == DijkstraLoop(g, e, DijkstraInit(g, s))

-----------------------------------------------------------------------------
(* pathfinding.py: dfs_path, bfs_path *)

\* lines 26-31 and 64-69: follow parent back from the target
RECURSIVE ParentPath(_, _)
ParentPath(par, node) ==
    IF node = PyNone THEN <<>> ELSE ParentPath(par, par[node]) \o <<node>>

\* C6 mutant: the loop over the neighbors stops at the first one it takes
RECURSIVE DiscoverFirstOnly(_, _, _)
DiscoverFirstOnly(st, current, nbrs) ==
    IF nbrs = <<>> THEN st
    ELSE IF Head(nbrs) \notin st.visited
    THEN [visited  |-> st.visited \cup {Head(nbrs)},
          parent   |-> (Head(nbrs) :> current) @@ st.parent,
          frontier |-> Append(st.frontier, Head(nbrs))]
    ELSE DiscoverFirstOnly(st, current, Tail(nbrs))

\* lines 34-38 and 72-76: every neighbor not yet visited is marked visited,
\* gets the current node as parent and is appended, in iteration order
RECURSIVE Discover(_, _, _)
Discover(st, current, nbrs) ==
    IF nbrs = <<>> THEN st
    ELSE LET neighbor == Head(nbrs)
             st1 == IF neighbor \notin st.visited
                    THEN [visited  |-> st.visited \cup {neighbor},
                          parent   |-> (neighbor :> current) @@ st.parent,
                          frontier |-> Append(st.frontier, neighbor)]
                    ELSE st
         IN  Discover(st1, current, Tail(nbrs))

\* lines 14-15 and 52-53: the guard both searches start with
SearchGuard(g, s, e) == HasNode(g, s) /\ HasNode(g, e)

\* lines 17-19 and 55-57: the state before the loop
SearchInit(s) == [visited |-> {s}, parent |-> (s :> PyNone), frontier |-> <<s>>]

\* lines 21-38 of dfs_path: one iteration, popping the last element of the stack
DfsIter(g, e, st) ==
    LET current == st.frontier[Len(st.frontier)]
        popped == [st EXCEPT !.frontier = SubSeq(st.frontier, 1, Len(st.frontier) - 1)]
    IN  IF current = e
        THEN [st |-> popped, done |-> TRUE,
              res |-> [exc |-> "", path |-> ParentPath(st.parent, e)]]
        ELSE [st |-> Discover(popped, current, g.adj[current]),
              done |-> FALSE, res |-> [exc |-> ""]]

\* C2 mutant: a node is marked visited when it is popped, not when it is
\* appended, so a node still in the deque is appended again under a new parent
RECURSIVE DiscoverLateMark(_, _, _)
DiscoverLateMark(st, current, nbrs) ==
    IF nbrs = <<>> THEN st
    ELSE LET st1 == IF Head(nbrs) \notin st.visited
                    THEN [visited  |-> st.visited,
                          parent   |-> (Head(nbrs) :> current) @@ st.parent,
                          frontier |-> Append(st.frontier, Head(nbrs))]
                    ELSE st
         IN  DiscoverLateMark(st1, current, Tail(nbrs))

BfsIterLateMark(g, e, st) ==
    LET current == Head(st.frontier)
        popped == [st EXCEPT !.frontier = Tail(st.frontier),
                             !.visited = st.visited \cup {current}]
    IN  IF current = e
        THEN [st |-> popped, done |-> TRUE,
              res |-> [exc |-> "", path |-> ParentPath(st.parent, e)]]
        ELSE [st |-> DiscoverLateMark(popped, current, g.adj[current]),
              done |-> FALSE, res |-> [exc |-> ""]]

\* lines 59-76 of bfs_path: one iteration, popping the first element of the deque
BfsIter(g, e, st) ==
    LET current == Head(st.frontier)
        popped == [st EXCEPT !.frontier = Tail(st.frontier)]
    IN  IF current = e
        THEN [st |-> popped, done |-> TRUE,
              res |-> [exc |-> "", path |-> ParentPath(st.parent, e)]]
        ELSE [st |-> Discover(popped, current, g.adj[current]),
              done |-> FALSE, res |-> [exc |-> ""]]

\* lines 15, 40, 53 and 78: return None, which the empty path stands for
SearchNoPath == [exc |-> "", path |-> <<>>]

RECURSIVE DfsLoop(_, _, _)
DfsLoop(g, e, st) ==
    IF st.frontier = <<>> THEN SearchNoPath
    ELSE LET it == DfsIter(g, e, st)
         IN  IF it.done THEN it.res ELSE DfsLoop(g, e, it.st)

RECURSIVE BfsLoop(_, _, _)
BfsLoop(g, e, st) ==
    IF st.frontier = <<>> THEN SearchNoPath
    ELSE LET it == BfsIter(g, e, st)
         IN  IF it.done THEN it.res ELSE BfsLoop(g, e, it.st)

\* dfs_path(G, start, end), run to its end
dfs_path(g, s, e) == IF SearchGuard(g, s, e) THEN DfsLoop(g, e, SearchInit(s)) ELSE SearchNoPath

\* bfs_path(G, start, end), run to its end
bfs_path(g, s, e) == IF SearchGuard(g, s, e) THEN BfsLoop(g, e, SearchInit(s)) ELSE SearchNoPath

-----------------------------------------------------------------------------
(* dijkstra.py: all_pairs_shortest_paths *)

\* C3 mutant: the result of every pair is stored, also when no path exists
AllPairsIterKeepAll(g, paths, i, j) ==
    LET s == g.nodes[i]
        e == g.nodes[j]
        r == dijkstra_shortest_path(g, s, e)
    IN  [exc |-> r.exc, all_paths |-> (<<s, e>> :> [path |-> r.path, cost |-> r.cost]) @@ paths]

\* lines 104-106: one iteration of the inner loop, for nodes[i] and nodes[j]
\* (1-based positions in list(G.nodes())); `if path` keeps a non-empty path
AllPairsIter(g, paths, i, j) ==
    LET s == g.nodes[i]
        e == g.nodes[j]
        r == dijkstra_shortest_path(g, s, e)
    IN  IF r.exc # "" THEN [exc |-> r.exc, all_paths |-> paths]
        ELSE IF r.path # <<>>
        THEN [exc |-> "", all_paths |-> (<<s, e>> :> [path |-> r.path, cost |-> r.cost]) @@ paths]
        ELSE [exc |-> "", all_paths |-> paths]

-----------------------------------------------------------------------------
(* The graphs and the arguments the searches are run on *)

\* node names, in ascending order
Names == << <<"A">>, <<"B">>, <<"C">>, <<"D">>, <<"E">> >>

Nodes == {Names[i] : i \in 1..NumNodes}

\* a name that is no node of any graph of the model
Absent == <<"Z">>

\* the arguments a search is called with
Ids == Nodes \cup {Absent}

\* the unordered pairs of distinct nodes, as a list in ascending order
RECURSIVE PairsFrom(_, _)
PairsFrom(i, j) ==
    IF i >= NumNodes THEN <<>>
    ELSE IF j > NumNodes THEN PairsFrom(i + 1, i + 2)
    ELSE << <<Names[i], Names[j]>> >> \o PairsFrom(i, j + 1)

PairList == PairsFrom(1, 2)

Pairs == Range(PairList)

RECURSIVE Reverse(_)
Reverse(s) == IF s = <<>> THEN <<>> ELSE Reverse(Tail(s)) \o <<Head(s)>>

\* the lists of at most k distinct pairs, in every order
RECURSIVE PairSeqs(_)
PairSeqs(k) ==
    IF k = 0 THEN {<<>>}
    ELSE LET prev == PairSeqs(k - 1)
         IN  prev \cup {Append(t, p) : <<t, p>> \in
                           {x \in prev \X Pairs : Len(x[1]) = k - 1 /\ ~Contains(x[1], x[2])}}

\* the graph that add_node for each name of nodeSeq, then add_edge for each
\* pair of edgeSeq with the attributes attrOf gives it, builds
RECURSIVE WithNodes(_, _)
WithNodes(g, nodeSeq) ==
    IF nodeSeq = <<>> THEN g ELSE WithNodes(AddNode(g, Head(nodeSeq), <<>>), Tail(nodeSeq))

RECURSIVE WithEdges(_, _, _)
WithEdges(g, edgeSeq, attrOf) ==
    IF edgeSeq = <<>> THEN g
    ELSE WithEdges(AddEdge(g, Head(edgeSeq)[1], Head(edgeSeq)[2], attrOf[Head(edgeSeq)]),
                   Tail(edgeSeq), attrOf)

NodeList == SubSeq(Names, 1, NumNodes)

\* graphs without weights, their edges inserted in every order: every
\* neighbor iteration order a graph built by add_edge calls can have
UnweightedGraphs ==
    {WithEdges(WithNodes(EmptyGraph, NodeList), es, [p \in Pairs |-> <<>>]) :
        es \in PairSeqs(MaxEdges)}

\* graphs whose edges all carry a weight of 0..MaxWeight, the nodes and the
\* edges inserted in ascending or in descending order
WeightedGraphs ==
    UNION {UNION {{WithEdges(WithNodes(EmptyGraph, IF up THEN NodeList ELSE Reverse(NodeList)),
                             SelectSeq(IF up THEN PairList ELSE Reverse(PairList),
                                       LAMBDA p : p \in E),
                             [p \in Pairs |-> [weight |-> IF p \in E THEN w[p] ELSE 0]]) :
                      w \in [E -> 0..MaxWeight]} :
                  E \in {X \in SUBSET Pairs : Cardinality(X) <= MaxEdges}} :
           up \in BOOLEAN}

\* the graphs of four nodes with the edges A-D, A-B, D-B and B-C, added in
\* that order, of weights 0..MaxWeight: B is reached from A directly and,
\* when that is shorter, again through D, before the search gets to C
KitePairs == << <<Names[1], Names[4]>>, <<Names[1], Names[2]>>,
               <<Names[4], Names[2]>>, <<Names[2], Names[3]>> >>

KiteGraphs ==
    {WithEdges(WithNodes(EmptyGraph, SubSeq(Names, 1, 4)), KitePairs,
               [p \in Range(KitePairs) |-> [weight |-> w[p]]]) :
        w \in [Range(KitePairs) -> 0..MaxWeight]}

\* the graph of five nodes with the edges A-C, A-D, A-E, C-E, C-B and D-B,
\* added in that order: from A, the node B is reached through C and
\* through D, and C is a neighbor of E, the last neighbor of A
CrossPairs == << <<Names[1], Names[3]>>, <<Names[1], Names[4]>>, <<Names[1], Names[5]>>,
                <<Names[3], Names[5]>>, <<Names[3], Names[2]>>, <<Names[4], Names[2]>> >>

CrossGraphs ==
    {WithEdges(WithNodes(EmptyGraph, Names), CrossPairs, [p \in Range(CrossPairs) |-> <<>>])}

-----------------------------------------------------------------------------
(* The calls, one action per loop iteration *)

\* the value of a variable that the running call does not use
Unused == <<>>

NoResult == [exc |-> "pending"]

\* the call of dijkstra_shortest_path: lines 66-69
DijkstraCall ==
    /\ fn = "dijkstra" /\ pc = "call"
    /\ LET st == DijkstraInit(G, start)
       IN  /\ distances' = st.distances
           /\ predecessors' = st.predecessors
           /\ queue' = st.queue
    /\ pc' = "run"
    /\ UNCHANGED <<G, fn, start, end, stack, visited, parent, result, allPairsVars, buildVars, weightVars>>

\* one iteration of the while loop: lines 71-87
DijkstraStep ==
    /\ fn = "dijkstra" /\ pc = "run" /\ queue # <<>>
    /\ LET it == DijkstraIter(G, end, [distances |-> distances,
                                       predecessors |-> predecessors, queue |-> queue])
       IN  /\ distances' = it.st.distances
           /\ predecessors' = it.st.predecessors
           /\ queue' = it.st.queue
           /\ pc' = IF it.done THEN "done" ELSE "run"
           /\ result' = IF it.done THEN it.res ELSE result
    /\ UNCHANGED <<G, fn, start, end, stack, visited, parent, allPairsVars, buildVars, weightVars>>

\* the loop ends on an empty heap: line 90
DijkstraExhausted ==
    /\ fn = "dijkstra" /\ pc = "run" /\ queue = <<>>
    /\ result' = DijkstraNoPath
    /\ pc' = "done"
    /\ UNCHANGED <<G, fn, start, end, searchVars, allPairsVars, buildVars, weightVars>>

\* the call of dfs_path: lines 14-19
DfsCall ==
    /\ fn = "dfs" /\ pc = "call"
    /\ IF SearchGuard(G, start, end)
       THEN /\ stack' = SearchInit(start).frontier
            /\ visited' = SearchInit(start).visited
            /\ parent' = SearchInit(start).parent
            /\ pc' = "run"
            /\ UNCHANGED result
       ELSE /\ result' = SearchNoPath
            /\ pc' = "done"
            /\ UNCHANGED <<stack, visited, parent>>
    /\ UNCHANGED <<G, fn, start, end, distances, predecessors, queue, allPairsVars, buildVars, weightVars>>

\* one iteration of dfs_path's while loop: lines 21-38
DfsStep ==
    /\ fn = "dfs" /\ pc = "run" /\ stack # <<>>
    /\ LET it == DfsIter(G, end, [visited |-> visited, parent |-> parent, frontier |-> stack])
       IN  /\ stack' = it.st.frontier
           /\ visited' = it.st.visited
           /\ parent' = it.st.parent
           /\ pc' = IF it.done THEN "done" ELSE "run"
           /\ result' = IF it.done THEN it.res ELSE result
    /\ UNCHANGED <<G, fn, start, end, distances, predecessors, queue, allPairsVars, buildVars, weightVars>>

\* dfs_path's loop ends on an empty stack: line 40
DfsExhausted ==
    /\ fn = "dfs" /\ pc = "run" /\ stack = <<>>
    /\ result' = SearchNoPath
    /\ pc' = "done"
    /\ UNCHANGED <<G, fn, start, end, searchVars, allPairsVars, buildVars, weightVars>>

\* the call of bfs_path: lines 52-57
BfsCall ==
    /\ fn = "bfs" /\ pc = "call"
    /\ IF SearchGuard(G, start, end)
       THEN /\ queue' = SearchInit(start).frontier
            /\ visited' = SearchInit(start).visited
            /\ parent' = SearchInit(start).parent
            /\ pc' = "run"
            /\ UNCHANGED result
       ELSE /\ result' = SearchNoPath
            /\ pc' = "done"
            /\ UNCHANGED <<queue, visited, parent>>
    /\ UNCHANGED <<G, fn, start, end, distances, predecessors, stack, allPairsVars, buildVars, weightVars>>

\* one iteration of bfs_path's while loop: lines 59-76
BfsStep ==
    /\ fn = "bfs" /\ pc = "run" /\ queue # <<>>
    /\ LET it == BfsIter(G, end, [visited |-> visited, parent |-> parent, frontier |-> queue])
       IN  /\ queue' = it.st.frontier
           /\ visited' = it.st.visited
           /\ parent' = it.st.parent
           /\ pc' = IF it.done THEN "done" ELSE "run"
           /\ result' = IF it.done THEN it.res ELSE result
    /\ UNCHANGED <<G, fn, start, end, distances, predecessors, stack, allPairsVars, buildVars, weightVars>>

\* bfs_path's loop ends on an empty deque: line 78
BfsExhausted ==
    /\ fn = "bfs" /\ pc = "run" /\ queue = <<>>
    /\ result' = SearchNoPath
    /\ pc' = "done"
    /\ UNCHANGED <<G, fn, start, end, searchVars, allPairsVars, buildVars, weightVars>>

\* the call of all_pairs_shortest_paths: lines 97-100
AllPairsCall ==
    /\ fn = "all_pairs" /\ pc = "call"
    /\ all_paths' = <<>>
    /\ ap_i' = 1 /\ ap_j' = 2
    /\ pc' = "run"
    /\ UNCHANGED <<G, fn, start, end, searchVars, result, buildVars, weightVars>>

\* one iteration of the inner loop, for nodes[ap_i] and nodes[ap_j]: lines 103-106
AllPairsStep ==
    /\ fn = "all_pairs" /\ pc = "run"
    /\ ap_i <= Len(G.nodes) /\ ap_j <= Len(G.nodes)
    /\ LET it == AllPairsIter(G, all_paths, ap_i, ap_j)
       IN  /\ all_paths' = it.all_paths
           /\ IF it.exc # ""
              THEN /\ pc' = "done" /\ result' = [exc |-> it.exc]
              ELSE /\ pc' = "run" /\ UNCHANGED result
    /\ ap_j' = ap_j + 1
    /\ UNCHANGED <<G, fn, start, end, searchVars, ap_i, buildVars, weightVars>>

\* the inner loop is over for nodes[ap_i]: the outer loop takes the next start
AllPairsNextStart ==
    /\ fn = "all_pairs" /\ pc = "run"
    /\ ap_i <= Len(G.nodes) /\ ap_j > Len(G.nodes)
    /\ ap_i' = ap_i + 1 /\ ap_j' = ap_i + 2
    /\ UNCHANGED <<G, fn, start, end, pc, searchVars, result, all_paths, buildVars, weightVars>>

\* the outer loop is over: line 111
AllPairsReturn ==
    /\ fn = "all_pairs" /\ pc = "run"
    /\ ap_i > Len(G.nodes)
    /\ result' = [exc |-> "", all_paths |-> all_paths]
    /\ pc' = "done"
    /\ UNCHANGED <<G, fn, start, end, searchVars, allPairsVars, buildVars, weightVars>>

\* what the variables of the calls that do not run hold
IdleSearch ==
    /\ distances = Unused /\ predecessors = Unused /\ queue = Unused
    /\ stack = Unused /\ visited = {} /\ parent = Unused
IdleAllPairs == all_paths = Unused /\ ap_i = 0 /\ ap_j = 0
IdleBuild == tables = Unused /\ bld = Unused
IdleWeights == weight_func = Unused /\ weight_type = Unused /\ edges = Unused

\* dijkstra_shortest_path on a weighted or an unweighted graph
InitDijkstra ==
    /\ G \in WeightedGraphs \cup UnweightedGraphs \cup KiteGraphs
    /\ fn = "dijkstra" /\ pc = "call"
    /\ start \in Ids /\ end \in Ids
    /\ result = NoResult
    /\ IdleSearch /\ IdleAllPairs /\ IdleBuild /\ IdleWeights

NextDijkstra == DijkstraCall \/ DijkstraStep \/ DijkstraExhausted

SpecDijkstra == InitDijkstra /\ [][NextDijkstra]_vars

\* dfs_path and bfs_path on an unweighted graph
InitSearch ==
    /\ G \in UnweightedGraphs \cup CrossGraphs
    /\ fn \in {"dfs", "bfs"} /\ pc = "call"
    /\ start \in Ids /\ end \in Ids
    /\ result = NoResult
    /\ IdleSearch /\ IdleAllPairs /\ IdleBuild /\ IdleWeights

NextSearch == DfsCall \/ DfsStep \/ DfsExhausted \/ BfsCall \/ BfsStep \/ BfsExhausted

SpecSearch == InitSearch /\ [][NextSearch]_vars

\* the three path searches together
InitPaths == InitDijkstra \/ InitSearch

NextPaths == NextDijkstra \/ NextSearch

SpecPaths == InitPaths /\ [][NextPaths]_vars

\* the searches run in one thread and no statement of theirs blocks: a call
\* that has a next statement executes it
FairPaths == SpecPaths /\ WF_vars(NextPaths)

\* all_pairs_shortest_paths on a weighted or an unweighted graph
InitAllPairs ==
    /\ G \in WeightedGraphs \cup UnweightedGraphs
    /\ fn = "all_pairs" /\ pc = "call"
    /\ start = Unused /\ end = Unused
    /\ result = NoResult
    /\ IdleSearch /\ IdleAllPairs /\ IdleBuild /\ IdleWeights

NextAllPairs == AllPairsCall \/ AllPairsStep \/ AllPairsNextStart \/ AllPairsReturn

SpecAllPairs == InitAllPairs /\ [][NextAllPairs]_vars

-----------------------------------------------------------------------------
(* graph_builder.py: parse_gtfs_time *)

\* NaN, the value pandas gives a missing cell
PyNaN == <<"NaN">>

Digits == <<"0", "1", "2", "3", "4", "5", "6", "7", "8", "9">>

IsDigit(c) == Contains(Digits, c)

DigitValue(c) == (CHOOSE i \in 1..10 : Digits[i] = c) - 1

\* str.split(sep) for a one-character separator
RECURSIVE Split(_, _)
Split(str, sep) ==
    IF ~Contains(str, sep) THEN <<str>>
    ELSE LET k == CHOOSE i \in 1..Len(str) :
                      str[i] = sep /\ \A j \in 1..(i - 1) : str[j] # sep
         IN  <<SubSeq(str, 1, k - 1)>> \o Split(SubSeq(str, k + 1, Len(str)), sep)

\* str.strip(): leading and trailing whitespace removed
RECURSIVE LStrip(_)
LStrip(str) == IF str # <<>> /\ Head(str) = " " THEN LStrip(Tail(str)) ELSE str

RECURSIVE RStrip(_)
RStrip(str) ==
    IF str # <<>> /\ str[Len(str)] = " " THEN RStrip(SubSeq(str, 1, Len(str) - 1)) ELSE str

Strip(str) == RStrip(LStrip(str))

\* the literals int() accepts: surrounding whitespace, an optional sign, then
\* digits that single underscores may separate
IsIntLiteral(str) ==
    LET t == Strip(str)
        body == IF t # <<>> /\ Head(t) \in {"+", "-"} THEN Tail(t) ELSE t
    IN  /\ body # <<>>
        /\ \A i \in 1..Len(body) : IsDigit(body[i]) \/ body[i] = "_"
        /\ IsDigit(body[1]) /\ IsDigit(body[Len(body)])
        /\ \A i \in 1..(Len(body) - 1) : ~(body[i] = "_" /\ body[i + 1] = "_")

RECURSIVE DigitsValue(_, _)
DigitsValue(body, acc) ==
    IF body = <<>> THEN acc
    ELSE IF Head(body) = "_" THEN DigitsValue(Tail(body), acc)
    ELSE DigitsValue(Tail(body), 10 * acc + DigitValue(Head(body)))

\* int(str) for a literal int() accepts
IntValue(str) ==
    LET t == Strip(str)
    IN  IF Head(t) = "-" THEN 0 - DigitsValue(Tail(t), 0)
        ELSE IF Head(t) = "+" THEN DigitsValue(Tail(t), 0)
        ELSE DigitsValue(t, 0)

\* parse_gtfs_time(time_str): the seconds, or the ValueError that int() raises
\* on a field that is no integer literal
parse_gtfs_time(time_str) ==
    IF time_str = PyNaN \/ time_str = <<>> THEN [exc |-> "", value |-> 0]
    ELSE LET parts == Split(time_str, ":")
         IN  IF Len(parts) = 3
             THEN IF \A k \in 1..3 : IsIntLiteral(parts[k])
                  THEN [exc |-> "",
                        value |-> IntValue(parts[1]) * 3600 + IntValue(parts[2]) * 60
                                  + IntValue(parts[3])]
                  ELSE [exc |-> "ValueError", value |-> 0]
             ELSE [exc |-> "", value |-> 0]

-----------------------------------------------------------------------------
(* graph_builder.py: build_stop_clusters *)

\* the sum of a list of numbers
RECURSIVE Sum(_)
Sum(xs) == IF xs = <<>> THEN 0 ELSE Head(xs) + Sum(Tail(xs))

\* the arithmetic mean of a non-empty list, as the pair <<sum, count>>
Mean(xs) == <<Sum(xs), Len(xs)>>

\* column[i] for each row of a table
Column(table, col) == [i \in 1..Len(table) |-> table[i][col]]

\* a set of names as the list in ascending order: the order of groupby's keys
RECURSIVE SortedNames(_)
SortedNames(S) ==
    IF S = {} THEN <<>>
    ELSE LET m == CHOOSE x \in S : \A y \in S \ {x} : StrLess(x, y)
         IN  <<m>> \o SortedNames(S \ {m})

\* line 11: stop_name.str.strip(), which leaves a missing name missing
CleanName(name) == IF name = PyNaN THEN PyNaN ELSE Strip(name)

\* lines 26-29: the stop_ids of the clusters, in order, each mapped to its node
RECURSIVE StopIdToNode(_, _)
StopIdToNode(clusters, map) ==
    IF clusters = <<>> THEN map
    ELSE LET row == Head(clusters)
             new == [sid \in Range(row.stop_ids) |-> row.node_id]
         IN  StopIdToNode(Tail(clusters), new @@ map)

\* build_stop_clusters(stops, used_stop_ids): the clusters, one row per
\* stripped name in ascending order (groupby drops a missing name), and the
\* mapping from stop_id to node_id
build_stop_clusters(stops, used_stop_ids) ==
    LET kept == SelectSeq(stops, LAMBDA r : r.stop_id \in used_stop_ids)
        keys == SortedNames({CleanName(kept[i].stop_name) : i \in 1..Len(kept)} \ {PyNaN})
        group(k) == SelectSeq(kept, LAMBDA r : CleanName(r.stop_name) = k)
        clusters == [i \in 1..Len(keys) |->
                        [node_id  |-> keys[i],
                         lat      |-> Mean(Column(group(keys[i]), "stop_lat")),
                         lon      |-> Mean(Column(group(keys[i]), "stop_lon")),
                         stop_ids |-> Column(group(keys[i]), "stop_id")]]
    IN  [clusters |-> clusters, stop_id_to_node |-> StopIdToNode(clusters, <<>>)]

-----------------------------------------------------------------------------
(* graph_builder.py: build_hvv_graph *)

\* the columns that lines 10-20 and 63-102 select by name, table by table:
\* selecting a column that a table lacks raises KeyError
SelectedColumns ==
    [stops      |-> {"stop_id", "stop_name", "stop_lat", "stop_lon"},
     stop_times |-> {"trip_id", "stop_id", "stop_sequence"},
     trips      |-> {"trip_id", "route_id"},
     routes     |-> {"route_id", "route_type"}]

\* some table lacks a column that is selected by name
SchemaError(t) ==
    \E tab \in DOMAIN SelectedColumns : ~(SelectedColumns[tab] \subseteq t.columns[tab])

\* lines 62-65: the routes of an allowed type
RoutesSel(t) ==
    IF t.allowed_route_types.none THEN t.routes
    ELSE SelectSeq(t.routes, LAMBDA r : r.route_type \in t.allowed_route_types.types)

\* line 68: the trips of those routes
TripsSel(t) ==
    LET ids == {RoutesSel(t)[i].route_id : i \in 1..Len(RoutesSel(t))}
    IN  SelectSeq(t.trips, LAMBDA r : r.route_id \in ids)

\* line 69: the stop_times of those trips
StopTimesSel(t) ==
    LET ids == {TripsSel(t)[i].trip_id : i \in 1..Len(TripsSel(t))}
    IN  SelectSeq(t.stop_times, LAMBDA r : r.trip_id \in ids)

\* C13 mutant: the stops that any row of stop_times names
UsedStopIdsUnfiltered(t) == {t.stop_times[i].stop_id : i \in 1..Len(t.stop_times)}

\* line 72: the stops those stop_times name
UsedStopIds(t) == {StopTimesSel(t)[i].stop_id : i \in 1..Len(StopTimesSel(t))}

\* lines 78-86: each stop_time, with the columns it has, and with the
\* route_id of its trip and the route_type of that route (trip_id and
\* route_id are unique in their tables)
Merged(t) ==
    LET trip(id) == CHOOSE r \in Range(TripsSel(t)) : r.trip_id = id
        route(id) == CHOOSE r \in Range(RoutesSel(t)) : r.route_id = id
    IN  [i \in 1..Len(StopTimesSel(t)) |->
            LET r == StopTimesSel(t)[i]
            IN  [route_id |-> trip(r.trip_id).route_id,
                 route_type |-> route(trip(r.trip_id).route_id).route_type] @@ r]

\* sort_values(["trip_id", "stop_sequence"]): a stable insertion sort
RowLess(a, b) ==
    a.trip_id < b.trip_id \/ (a.trip_id = b.trip_id /\ a.stop_sequence < b.stop_sequence)

RECURSIVE InsertRow(_, _)
InsertRow(sorted, r) ==
    IF sorted = <<>> THEN <<r>>
    ELSE IF RowLess(r, Head(sorted)) THEN <<r>> \o sorted
    ELSE <<Head(sorted)>> \o InsertRow(Tail(sorted), r)

RECURSIVE SortRows(_, _)
SortRows(rows, sorted) ==
    IF rows = <<>> THEN sorted ELSE SortRows(Tail(rows), InsertRow(sorted, Head(rows)))

\* a set of numbers as the list in ascending order: the order of groupby's keys
RECURSIVE SortedInts(_)
SortedInts(S) ==
    IF S = {} THEN <<>>
    ELSE LET m == CHOOSE x \in S : \A y \in S : x <= y
         IN  <<m>> \o SortedInts(S \ {m})

\* lines 92-99: a node per cluster, in the clusters' order
RECURSIVE AddClusterNodes(_, _)
AddClusterNodes(g, clusters) ==
    IF clusters = <<>> THEN g
    ELSE LET r == Head(clusters)
         IN  AddClusterNodes(
                 AddNode(g, r.node_id,
                         [lat |-> r.lat, lon |-> r.lon, stop_ids |-> r.stop_ids,
                          transfer |-> Len(r.stop_ids) > 1]),
                 Tail(clusters))

\* lines 104-118: the lists a trip's rows give: a row whose stop has no node,
\* or whose node is the empty name, is passed over; exc is the ValueError that
\* parse_gtfs_time raises on a row that is not passed over; row.get reads a
\* timestamp column that the table lacks as the empty string
RECURSIVE CollectRows(_, _, _)
CollectRows(group, map, acc) ==
    IF group = <<>> \/ acc.exc # "" THEN acc
    ELSE LET row == Head(group)
             node == Get(map, row.stop_id, PyNone)
             arrival_time == parse_gtfs_time(Get(row, "arrival_time", <<>>))
             departure_time == parse_gtfs_time(Get(row, "departure_time", <<>>))
         IN  IF node = PyNone \/ node = <<>>
             THEN CollectRows(Tail(group), map, acc)
             ELSE IF arrival_time.exc # "" \/ departure_time.exc # ""
             THEN [acc EXCEPT !.exc = "ValueError"]
             ELSE CollectRows(Tail(group), map,
                      [exc         |-> "",
                       nodes       |-> Append(acc.nodes, node),
                       route_ids   |-> Append(acc.route_ids, row.route_id),
                       route_types |-> Append(acc.route_types, row.route_type),
                       times       |-> Append(acc.times,
                                              <<arrival_time.value, departure_time.value>>)])

NoRows == [exc |-> "", nodes |-> <<>>, route_ids |-> <<>>, route_types |-> <<>>, times |-> <<>>]

\* C9 mutant: the travel time is taken between the two departures, and a
\* negative one is kept
TravelTimeDepartures(times, i) ==
    IF i + 1 <= Len(times) THEN times[i + 1][2] - times[i][2] ELSE 60

\* lines 126-131: the travel time of the step from position i to i + 1
\* (1-based positions in times)
TravelTime(times, i) ==
    IF i + 1 <= Len(times)
    THEN LET travel_time == times[i + 1][1] - times[i][2]
         IN  IF travel_time < 0 THEN travel_time + 24 * 3600 ELSE travel_time
    ELSE 60

\* C7 mutant: the edge is added without the test u != v
EdgeStepNoTest(g, c, i) ==
    LET u == c.nodes[i]
        v == c.nodes[i + 1]
    IN  AddEdge(g, u, v, [route_ids   |-> {c.route_ids[i]},
                          route_types |-> {c.route_types[i]},
                          travel_time |-> <<TravelTime(c.times, i)>>])

\* C8 mutant: an existing edge's attributes are replaced, not accumulated
EdgeStepOverwrite(g, c, i) ==
    LET u == c.nodes[i]
        v == c.nodes[i + 1]
    IN  IF u # v
        THEN AddEdge(g, u, v, [route_ids   |-> {c.route_ids[i]},
                               route_types |-> {c.route_types[i]},
                               travel_time |-> <<TravelTime(c.times, i)>>])
        ELSE g

\* C18 mutant: a sample that the edge's list already holds is not added again
EdgeStepDedup(g, c, i) ==
    LET u == c.nodes[i]
        v == c.nodes[i + 1]
        travel_time == TravelTime(c.times, i)
    IN  IF u # v
        THEN IF HasEdge(g, u, v)
             THEN LET old == g.eattr[EdgeKey(u, v)]
                      samples == Get(old, "travel_time", <<>>)
                  IN  [g EXCEPT !.eattr[EdgeKey(u, v)] =
                          [route_ids   |-> old.route_ids \cup {c.route_ids[i]},
                           route_types |-> old.route_types \cup {c.route_types[i]},
                           travel_time |-> IF Contains(samples, travel_time) THEN samples
                                           ELSE Append(samples, travel_time)]
                          @@ old]
             ELSE AddEdge(g, u, v, [route_ids   |-> {c.route_ids[i]},
                                    route_types |-> {c.route_types[i]},
                                    travel_time |-> <<travel_time>>])
        ELSE g

\* lines 122-144: the body of the loop over consecutive nodes, for the
\* 1-based position i
EdgeStep(g, c, i) ==
    LET u == c.nodes[i]
        v == c.nodes[i + 1]
        travel_time == TravelTime(c.times, i)
    IN  IF u # v
        THEN IF HasEdge(g, u, v)
             THEN LET old == g.eattr[EdgeKey(u, v)]
                  IN  [g EXCEPT !.eattr[EdgeKey(u, v)] =
                          [route_ids   |-> old.route_ids \cup {c.route_ids[i]},
                           route_types |-> old.route_types \cup {c.route_types[i]},
                           travel_time |-> Append(Get(old, "travel_time", <<>>), travel_time)]
                          @@ old]
             ELSE AddEdge(g, u, v, [route_ids   |-> {c.route_ids[i]},
                                    route_types |-> {c.route_types[i]},
                                    travel_time |-> <<travel_time>>])
        ELSE g

-----------------------------------------------------------------------------
(* The tables build_hvv_graph is run on *)

\* stops.txt: s1 and s2 share the stripped name A; the name of s4 strips to
\* the empty string; the stop s9 that stop_times may name is missing here
StopsTable ==
    << [stop_id |-> "s1", stop_name |-> <<"A">>,           stop_lat |-> 0, stop_lon |-> 0],
       [stop_id |-> "s2", stop_name |-> <<" ", "A", " ">>, stop_lat |-> 0, stop_lon |-> 2],
       [stop_id |-> "s3", stop_name |-> <<"B">>,           stop_lat |-> 0, stop_lon |-> 1],
       [stop_id |-> "s4", stop_name |-> <<" ">>,           stop_lat |-> 5, stop_lon |-> 5],
       [stop_id |-> "s5", stop_name |-> <<"C">>,           stop_lat |-> 0, stop_lon |-> 2] >>

StopChoices == {"s1", "s2", "s3", "s4", "s5", "s9"}

\* routes.txt and trips.txt: trip 1 runs on a U-Bahn route, trip 2 on a bus route
RoutesTable == << [route_id |-> "R1", route_type |-> 402],
                  [route_id |-> "R2", route_type |-> 3] >>

TripsTable == << [trip_id |-> 1, route_id |-> "R1"], [trip_id |-> 2, route_id |-> "R2"] >>

\* allowed_route_types: None, or the set task1.py to task3.py pass
AllowedChoices == {[none |-> TRUE, types |-> {}], [none |-> FALSE, types |-> {402, 109}]}

\* timestamps
T0800 == <<"0", "8", ":", "0", "0", ":", "0", "0">>
T0805 == <<"0", "8", ":", "0", "5", ":", "0", "0">>
T0809 == <<"0", "8", ":", "0", "9", ":", "0", "0">>
T2358 == <<"2", "3", ":", "5", "8", ":", "0", "0">>
T0002 == <<"0", "0", ":", "0", "2", ":", "0", "0">>
T2402 == <<"2", "4", ":", "0", "2", ":", "0", "0">>
T2500 == <<"2", "5", ":", "0", "0", ":", "0", "0">>
TSigned == <<" ", "1", ":", "+", "2", ":", "-", "3">>
TTwoFields == <<"0", "8", ":", "0", "0">>
TFourFields == <<"1", ":", "2", ":", "3", ":", "4">>
TNotInt == <<"8", ":", "x", "x", ":", "0", "0">>
TEmpty == <<>>

\* the timestamps that are absent or that are no HH:MM:SS of integers
MalformedTimes == {PyNaN, TEmpty, TTwoFields, TFourFields, TNotInt}

TimeStrings == {T0800, T0805, T2358, T0002, T2402, T2500, TSigned} \cup MalformedTimes

\* the timestamps of the fields that no travel time is computed from
OtherTimes == {T0800, PyNaN, TNotInt}

\* the stop_times rows of a trip that calls at stopSeq, with the timestamps
\* timeSeq (pairs of arrival and departure), listed in ascending or in
\* descending stop_sequence
TripRows(trip_id, stopSeq, timeSeq, ascending) ==
    LET rows == [i \in 1..Len(stopSeq) |->
                    [trip_id |-> trip_id, stop_id |-> stopSeq[i], stop_sequence |-> i,
                     arrival_time |-> timeSeq[i][1], departure_time |-> timeSeq[i][2]]]
    IN  IF ascending THEN rows ELSE Reverse(rows)

\* the columns of the four tables
AllColumns ==
    [stops      |-> {"stop_id", "stop_name", "stop_lat", "stop_lon"},
     stop_times |-> {"trip_id", "stop_id", "stop_sequence", "arrival_time", "departure_time"},
     trips      |-> {"trip_id", "route_id"},
     routes     |-> {"route_id", "route_type"}]

Tables(stop_times, allowed) ==
    [stops |-> StopsTable, stop_times |-> stop_times, trips |-> TripsTable,
     routes |-> RoutesTable, allowed_route_types |-> allowed, columns |-> AllColumns]

StopSeqs == UNION {[1..n -> StopChoices] : n \in 0..MaxRows}

\* inputs that vary the stops of the two trips and the route filter; every
\* timestamp is 08:00:00 and stop_times lists trip 2 first, each trip's rows
\* in descending stop_sequence
TopologyInputs ==
    {Tables(TripRows(2, p[2], [i \in 1..Len(p[2]) |-> <<T0800, T0800>>], FALSE) \o
            TripRows(1, p[1], [i \in 1..Len(p[1]) |-> <<T0800, T0800>>], FALSE), a) :
        p \in {q \in StopSeqs \X StopSeqs : Len(q[1]) + Len(q[2]) <= MaxRows},
        a \in AllowedChoices}

\* inputs that vary the timestamps of trip 1 from s1 (A) to s3 (B); trip 2 is
\* absent or runs with the same timestamps from A to B or from B to A; no
\* route filter; stop_times lists the rows in ascending order
TimingInputs ==
    {Tables((IF second = "none" THEN <<>>
             ELSE TripRows(2, IF second = "same" THEN <<"s1", "s3">> ELSE <<"s3", "s1">>,
                           << <<a1, d1>>, <<a2, d2>> >>, TRUE)) \o
            TripRows(1, <<"s1", "s3">>, << <<a1, d1>>, <<a2, d2>> >>, TRUE),
            [none |-> TRUE, types |-> {}]) :
        a1 \in OtherTimes, d1 \in TimeStrings, a2 \in TimeStrings, d2 \in OtherTimes,
        second \in {"none", "same", "back"}}

\* the scenario of one trip that leaves s1 (A) at 08:00:00, reaches s3 (B)
\* at 08:05:00 and leaves it at once, and reaches s5 (C) at 08:09:00; the
\* arrival at A and the departure from C are those times or missing
ScenarioInputs ==
    {Tables(TripRows(1, <<"s1", "s3", "s5">>,
                     << <<a, T0800>>, <<T0805, T0805>>, <<T0809, d>> >>, TRUE), allowed) :
        a \in {T0800, PyNaN}, d \in {T0809, PyNaN}, allowed \in AllowedChoices}

\* the tables t with the column col of the table tab taken away
DropColumn(t, tab, col) ==
    [t EXCEPT ![tab] = [i \in 1..Len(t[tab]) |->
                            [c \in DOMAIN t[tab][i] \ {col} |-> t[tab][i][c]]],
              !.columns[tab] = t.columns[tab] \ {col}]

\* the scenario's tables, each with one column of one table taken away
SchemaInputs ==
    {DropColumn(t, tc[1], tc[2]) :
        t \in ScenarioInputs,
        tc \in UNION {{<<tab, col>> : col \in AllColumns[tab]} : tab \in DOMAIN AllColumns}}

-----------------------------------------------------------------------------
(* The call of build_hvv_graph, one action per trip and per step of a trip *)

\* lines 61-102: filter, cluster, merge, add the nodes and sort; KeyError
\* when a table lacks a column that these lines select
BuildCall ==
    /\ fn = "build" /\ pc = "call"
    /\ IF SchemaError(tables)
       THEN /\ result' = [exc |-> "KeyError"]
            /\ pc' = "done"
            /\ UNCHANGED <<G, bld>>
       ELSE /\ LET cl == build_stop_clusters(tables.stops, UsedStopIds(tables))
                   st == SortRows(Merged(tables), <<>>)
               IN  /\ G' = AddClusterNodes(EmptyGraph, cl.clusters)
                   /\ bld' = [clusters |-> cl.clusters,
                              stop_id_to_node |-> cl.stop_id_to_node,
                              st |-> st,
                              trip_ids |-> SortedInts({st[i].trip_id : i \in 1..Len(st)}),
                              cur |-> NoRows,
                              i |-> 0]
            /\ pc' = "trips"
            /\ UNCHANGED result
    /\ UNCHANGED <<fn, start, end, searchVars, allPairsVars, tables, weightVars>>

\* lines 102-118: the next trip's rows are collected
BuildTrip ==
    /\ fn = "build" /\ pc = "trips" /\ bld.trip_ids # <<>>
    /\ LET group == SelectSeq(bld.st, LAMBDA r : r.trip_id = Head(bld.trip_ids))
           c == CollectRows(group, bld.stop_id_to_node, NoRows)
       IN  IF c.exc # ""
           THEN /\ result' = [exc |-> c.exc]
                /\ pc' = "done"
                /\ UNCHANGED bld
           ELSE /\ bld' = [bld EXCEPT !.cur = c, !.i = 0]
                /\ pc' = "edges"
                /\ UNCHANGED result
    /\ UNCHANGED <<G, fn, start, end, searchVars, allPairsVars, tables, weightVars>>

\* lines 121-144: one iteration of the loop over the trip's consecutive nodes
\* (bld.i is the loop's 0-based i)
BuildEdge ==
    /\ fn = "build" /\ pc = "edges" /\ bld.i < Len(bld.cur.nodes) - 1
    /\ G' = EdgeStep(G, bld.cur, bld.i + 1)
    /\ bld' = [bld EXCEPT !.i = bld.i + 1]
    /\ UNCHANGED <<fn, start, end, pc, searchVars, result, allPairsVars, tables, weightVars>>

\* the loop over the trip's nodes is over: the next trip
BuildTripEnd ==
    /\ fn = "build" /\ pc = "edges" /\ bld.i >= Len(bld.cur.nodes) - 1
    /\ bld' = [bld EXCEPT !.trip_ids = Tail(bld.trip_ids)]
    /\ pc' = "trips"
    /\ UNCHANGED <<G, fn, start, end, searchVars, result, allPairsVars, tables, weightVars>>

\* line 146: every trip is done
BuildReturn ==
    /\ fn = "build" /\ pc = "trips" /\ bld.trip_ids = <<>>
    /\ result' = [exc |-> "", clusters |-> bld.clusters, routes_sel |-> RoutesSel(tables)]
    /\ pc' = "done"
    /\ UNCHANGED <<G, fn, start, end, searchVars, allPairsVars, buildVars, weightVars>>

InitBuild ==
    /\ tables \in TopologyInputs \cup TimingInputs \cup ScenarioInputs
    /\ G = EmptyGraph
    /\ fn = "build" /\ pc = "call"
    /\ start = Unused /\ end = Unused
    /\ result = NoResult
    /\ bld = Unused
    /\ IdleSearch /\ IdleAllPairs /\ IdleWeights

NextBuild == BuildCall \/ BuildTrip \/ BuildEdge \/ BuildTripEnd \/ BuildReturn

SpecBuild == InitBuild /\ [][NextBuild]_vars

\* build_hvv_graph on tables that lack a column
InitSchema ==
    /\ tables \in SchemaInputs
    /\ G = EmptyGraph
    /\ fn = "build" /\ pc = "call"
    /\ start = Unused /\ end = Unused
    /\ result = NoResult
    /\ bld = Unused
    /\ IdleSearch /\ IdleAllPairs /\ IdleWeights

SpecSchema == InitSchema /\ [][NextBuild]_vars

-----------------------------------------------------------------------------
(* dijkstra.py: geographic_distance, travel_time_weight, add_edge_weights *)

\* G.edges(): each edge once, from the endpoint that comes first in the node
\* list, in the order of that node's neighbors
RECURSIVE EdgesFrom(_, _, _)
EdgesFrom(g, i, seen) ==
    IF i > Len(g.nodes) THEN <<>>
    ELSE LET n == g.nodes[i]
             out == SelectSeq(g.adj[n], LAMBDA nbr : nbr \notin seen)
         IN  [k \in 1..Len(out) |-> <<n, out[k]>>] \o EdgesFrom(g, i + 1, seen \cup {n})

Edges(g) == EdgesFrom(g, 1, {})

\* line 17: R, the Earth radius in km
EarthRadius == 6371

Abs(x) == IF x < 0 THEN 0 - x ELSE x

\* The floats of lines 9-27. A whole number is held as its bits in groups of
\* 13, least significant group first: <<>> is 0. A float is
\* [neg, mag, exp], the number mag * 2^exp with the sign neg, where mag is an
\* odd whole number of at most 53 bits and exp is at least MinExp; zero is
\* mag = <<>> with exp = 0. The value that an operation returns is a float.
\* A size is a non-negative real cut off after 117 binary places and held as
\* the whole number of its units of 2^-117: Pi is pi.
Pi == <<3598, 3587, 3153, 1222, 4518, 6704, 1090, 7594, 1159, 3>>

\* math.radians multiplies by the float pi / 180.0 = 0x11df46a2529d39 * 2^-58
DegToRad == [neg |-> FALSE, mag |-> <<7481, 4756, 4520, 958, 1>>, exp |-> 0 - 58]

Limb == 2 ^ 13

RECURSIVE Bits(_)
Bits(n) == IF n = 0 THEN 0 ELSE 1 + Bits(n \div 2)

LimbBits == Bits(Limb) - 1

FracLimbs == Len(Pi) - 1

\* the binary places of a size
FracBits == LimbBits * FracLimbs

RECURSIVE Carry(_, _, _)
Carry(cols, i, c) ==
    IF i > Len(cols)
    THEN IF c = 0 THEN <<>> ELSE <<c % Limb>> \o Carry(cols, i, c \div Limb)
    ELSE LET t == cols[i] + c
         IN  <<t % Limb>> \o Carry(cols, i + 1, t \div Limb)

RECURSIVE Trim(_)
Trim(x) ==
    IF x = <<>> \/ x[Len(x)] # 0 THEN x ELSE Trim(SubSeq(x, 1, Len(x) - 1))

LimbAt(x, i) == IF i \in 1..Len(x) THEN x[i] ELSE 0

\* x + y
BigAdd(x, y) ==
    LET n == IF Len(x) > Len(y) THEN Len(x) ELSE Len(y)
    IN  Trim(Carry([i \in 1..n |-> LimbAt(x, i) + LimbAt(y, i)], 1, 0))

RECURSIVE Borrow(_, _, _, _)
Borrow(x, y, i, b) ==
    IF i > Len(x) THEN <<>>
    ELSE LET t == x[i] - LimbAt(y, i) - b
         IN  IF t < 0 THEN <<t + Limb>> \o Borrow(x, y, i + 1, 1)
             ELSE <<t>> \o Borrow(x, y, i + 1, 0)

\* x - y, for y <= x
BigSub(x, y) == Trim(Borrow(x, y, 1, 0))

\* x < y
BigLess(x, y) ==
    \/ Len(x) < Len(y)
    \/ /\ Len(x) = Len(y)
       /\ \E i \in 1..Len(x) : /\ x[i] < y[i]
                               /\ \A j \in (i + 1)..Len(x) : x[j] = y[j]

\* x - y, or 0 when that is below 0
Minus(x, y) == IF BigLess(x, y) THEN <<>> ELSE BigSub(x, y)

RECURSIVE ColSum(_, _, _, _)
ColSum(x, y, k, i) ==
    IF i > Len(x) \/ i > k THEN 0
    ELSE x[i] * LimbAt(y, k + 1 - i) + ColSum(x, y, k, i + 1)

\* x * y of two whole numbers
BigMul(x, y) ==
    IF x = <<>> \/ y = <<>> THEN <<>>
    ELSE Trim(Carry([k \in 1..(Len(x) + Len(y) - 1) |-> ColSum(x, y, k, 1)], 1, 0))

\* p / 2^FracBits, cut off
DropFrac(p) == IF Len(p) <= FracLimbs THEN <<>> ELSE SubSeq(p, FracLimbs + 1, Len(p))

\* x * y of two sizes, cut off
FixMul(x, y) == DropFrac(BigMul(x, y))

\* x * k for a small natural k
BigMulSmall(x, k) == Trim(Carry([i \in 1..Len(x) |-> x[i] * k], 1, 0))

RECURSIVE DivFrom(_, _, _, _)
DivFrom(x, i, r, d) ==
    IF i = 0 THEN <<>>
    ELSE LET t == r * Limb + x[i]
         IN  DivFrom(x, i - 1, t % d, d) \o <<t \div d>>

\* x / d for a small positive d, cut off
BigDivSmall(x, d) == Trim(DivFrom(x, Len(x), 0, d))

RECURSIVE FromInt(_)
FromInt(n) == IF n = 0 THEN <<>> ELSE <<n % Limb>> \o FromInt(n \div Limb)

RECURSIVE ToInt(_)
ToInt(x) == IF x = <<>> THEN 0 ELSE x[1] + Limb * ToInt(Tail(x))

\* the size that equals the natural n
FixOfInt(n) == IF n = 0 THEN <<>> ELSE [i \in 1..FracLimbs |-> 0] \o FromInt(n)

\* the number of bits from the first significant one down
BitLength(x) == IF x = <<>> THEN 0 ELSE LimbBits * (Len(x) - 1) + Bits(x[Len(x)])

\* the bits that a float keeps, and the exponent of the smallest float
\* (sys.float_info.mant_dig, and min_exp - mant_dig)
MantDig == BitLength(DegToRad.mag)

MinExp == 0 - 1021 - MantDig

\* x * 2^s and x / 2^s, cut off
ShiftLeft(x, s) ==
    IF x = <<>> THEN <<>>
    ELSE [i \in 1..(s \div LimbBits) |-> 0] \o BigMulSmall(x, 2 ^ (s % LimbBits))

ShiftRight(x, s) ==
    IF Len(x) <= s \div LimbBits THEN <<>>
    ELSE BigDivSmall(SubSeq(x, s \div LimbBits + 1, Len(x)), 2 ^ (s % LimbBits))

\* x * 2^s for an s of either sign, cut off
Shift(x, s) == IF s < 0 THEN ShiftRight(x, 0 - s) ELSE ShiftLeft(x, s)

\* 1 / x for a size x of 1..2, by the steps k <- k (2 - x k) from 1/2,
\* until a step changes nothing or n steps are made
RECURSIVE RecipFrom(_, _, _)
RECURSIVE RecipNext(_, _, _, _)
RecipFrom(x, k, n) ==
    IF n = 0 THEN k
    ELSE RecipNext(x, k, FixMul(k, BigSub(FixOfInt(2), FixMul(x, k))), n)

RecipNext(x, k, next, n) == IF next = k THEN k ELSE RecipFrom(x, next, n - 1)

Recip(x) == RecipFrom(x, BigDivSmall(FixOfInt(1), 2), 8)

\* 1 / sqrt(r2) for a size r2 of 1..8, by the steps k <- k (3 - r2 k^2) / 2
\* from 1/2, until a step changes nothing or n steps are made
RECURSIVE RsqrtFrom(_, _, _)
RECURSIVE RsqrtNext(_, _, _, _)
RsqrtFrom(r2, k, n) ==
    IF n = 0 THEN k
    ELSE RsqrtNext(r2, k,
                   BigDivSmall(FixMul(k, BigSub(FixOfInt(3), FixMul(r2, FixMul(k, k)))), 2), n)

RsqrtNext(r2, k, next, n) == IF next = k THEN k ELSE RsqrtFrom(r2, next, n - 1)

Rsqrt(r2) == RsqrtFrom(r2, BigDivSmall(FixOfInt(1), 2), 12)

\* the whole part of the square root of a whole number n of at most 2j + 2
\* bits: the root of the size n / 4^j, of 1..4, times 2^j, which is at most
\* 1 off, and then the r with r^2 <= n < (r + 1)^2
SqrtFix(n, r) ==
    IF BigLess(n, BigMul(r, r)) THEN BigSub(r, <<1>>)
    ELSE IF BigLess(n, BigMul(BigAdd(r, <<1>>), BigAdd(r, <<1>>))) THEN r
    ELSE BigAdd(r, <<1>>)

SqrtScaled(n, j, m) == SqrtFix(n, Shift(FixMul(m, Rsqrt(m)), j - FracBits))

SqrtHalf(n, j) == SqrtScaled(n, j, Shift(n, FracBits - 2 * j))

Isqrt(n) == SqrtHalf(n, (BitLength(n) - 1) \div 2)

\* the zeros that x ends with
RECURSIVE TrailingZeros(_, _)
TrailingZeros(x, i) ==
    IF x[i] = 0 THEN LimbBits + TrailingZeros(x, i + 1)
    ELSE IF x[i] % 2 = 0 THEN 1 + TrailingZeros([x EXCEPT ![i] = x[i] \div 2], i)
    ELSE 0

\* the float of the sign neg and the value x * 2^e, which a float can hold
Odd(neg, x, e, z) == [neg |-> neg, mag |-> ShiftRight(x, z), exp |-> e + z]

Float(neg, x, e) ==
    IF x = <<>> THEN [neg |-> FALSE, mag |-> <<>>, exp |-> 0]
    ELSE Odd(neg, x, e, TrailingZeros(x, 1))

Zero == Float(FALSE, <<>>, 0)

One == Float(FALSE, <<1>>, 0)

\* the float f with the sign neg
Signed(neg, f) == [neg |-> neg /\ f.mag # <<>>, mag |-> f.mag, exp |-> f.exp]

\* The floats next to the value x * 2^e. The last s bits of x are those that
\* a float cannot keep; q is x / 2^s cut off. The float below ("down"), the
\* float above ("up"), and the nearer of them, a tie going to the even one
\* ("nearest": the rounding of every operation of the arithmetic).
Cut(x, e) == IF BitLength(x) - MantDig > MinExp - e THEN BitLength(x) - MantDig ELSE MinExp - e

RoundUp(q, r, half) == BigLess(half, r) \/ (r = half /\ LimbAt(q, 1) % 2 = 1)

Bump(mode, x, s, q) ==
    IF mode = "down" THEN FALSE
    ELSE IF mode = "up" THEN ShiftLeft(q, s) # x
    ELSE RoundUp(q, BigSub(x, ShiftLeft(q, s)), ShiftLeft(<<1>>, s - 1))

RoundFrom(mode, x, e, s, q) ==
    Float(FALSE, IF Bump(mode, x, s, q) THEN BigAdd(q, <<1>>) ELSE q, e + s)

RoundOff(mode, x, e, s) ==
    IF s <= 0 THEN Float(FALSE, x, e) ELSE RoundFrom(mode, x, e, s, ShiftRight(x, s))

Round(mode, x, e) == RoundOff(mode, x, e, Cut(x, e))

Double(x, e) == Round("nearest", x, e)

\* x with two more bits, the last of them set when x is a value cut off
Sticky(x, inexact) == BigAdd(BigMulSmall(x, 4), IF inexact THEN <<1>> ELSE <<>>)

\* the float above the non-negative float f
SuccBy(f, k) == Float(FALSE, BigAdd(ShiftLeft(f.mag, k), <<1>>), f.exp - k)

Succ(f) ==
    IF f.mag = <<>> THEN Float(FALSE, <<1>>, MinExp)
    ELSE SuccBy(f, IF MantDig - BitLength(f.mag) < f.exp - MinExp
                   THEN MantDig - BitLength(f.mag) ELSE f.exp - MinExp)

\* the non-negative floats from d to u
RECURSIVE FloatsFrom(_, _)
FloatsFrom(d, u) == IF d = u THEN {d} ELSE {d} \cup FloatsFrom(Succ(d), u)

\* What a function of the math library may return for a value that lies in
\* lo * 2^le .. hi * 2^he: a float next to the value, that is, one of the
\* float below the least and the float above the greatest of these values
\* and the floats between the two, with the sign neg.
Between(neg, lo, le, hi, he) ==
    {Signed(neg, f) : f \in FloatsFrom(Round("down", lo, le), Round("up", hi, he))}

\* the float of num / den
FloatFraction(neg, n, den, q) ==
    Signed(neg, Double(Sticky(q, BigMulSmall(q, den) # n), 0 - FracBits - 2))

FloatOf(d) ==
    FloatFraction(d[1] < 0, FixOfInt(Abs(d[1])), d[2],
                  BigDivSmall(FixOfInt(Abs(d[1])), d[2]))

\* x * y, x + y, y - x and x / 2 of floats
FloatMul(x, y) == Signed(x.neg # y.neg, Double(BigMul(x.mag, y.mag), x.exp + y.exp))

AddSizes(xneg, a, yneg, b, e) ==
    IF xneg = yneg THEN Signed(xneg, Double(BigAdd(a, b), e))
    ELSE IF BigLess(a, b) THEN Signed(yneg, Double(BigSub(b, a), e))
    ELSE Signed(xneg, Double(BigSub(a, b), e))

AddFrom(x, y, e) ==
    AddSizes(x.neg, ShiftLeft(x.mag, x.exp - e), y.neg, ShiftLeft(y.mag, y.exp - e), e)

FloatAdd(x, y) == AddFrom(x, y, IF x.exp < y.exp THEN x.exp ELSE y.exp)

FloatSub(y, x) == FloatAdd(y, [neg |-> ~x.neg, mag |-> x.mag, exp |-> x.exp])

FloatHalf(x) == Signed(x.neg, Double(x.mag, x.exp - 1))

FloatTwice(x) == Float(x.neg, x.mag, x.exp + 1)

\* x < y for the sizes of two floats, x < 0 and x > 1
FloatLess(x, y) ==
    BigLess(ShiftLeft(x.mag, x.exp - (IF x.exp < y.exp THEN x.exp ELSE y.exp)),
            ShiftLeft(y.mag, y.exp - (IF x.exp < y.exp THEN x.exp ELSE y.exp)))

FloatNegative(x) == x.neg /\ x.mag # <<>>

FloatAboveOne(x) == ~x.neg /\ FloatLess(One, x)

\* the size of the value x * 2^e, cut off
ToFix(x, e) == Shift(x, e + FracBits)

\* the alternating series t - t x^2/((k+1)(k+2)) + ..., summed until its
\* terms vanish: the positive and the negative terms apart, then the sign
\* and the size of their difference
Difference(pos, neg) ==
    IF BigLess(pos, neg) THEN [neg |-> TRUE, mag |-> BigSub(neg, pos)]
    ELSE [neg |-> FALSE, mag |-> BigSub(pos, neg)]

RECURSIVE Series(_, _, _, _, _)
Series(x2, t, k, pos, neg) ==
    IF t = <<>> THEN Difference(pos, neg)
    ELSE Series(x2, BigDivSmall(FixMul(t, x2), (k + 1) * (k + 2)), k + 2,
                IF (k \div 2) % 2 = 0 THEN BigAdd(pos, t) ELSE pos,
                IF (k \div 2) % 2 = 0 THEN neg ELSE BigAdd(neg, t))

\* what the sums of a series for an angle of at most pi may be off by, in
\* units of 2^-FracBits
SeriesError == FromInt(2 ^ 12)

\* sin(x) / x and cos(x) as sizes with a sign, for a float x
SinOver(x) == Series(ToFix(BigMul(x.mag, x.mag), 2 * x.exp), FixOfInt(1), 1, <<>>, <<>>)

CosOf(x) == Series(ToFix(BigMul(x.mag, x.mag), 2 * x.exp), FixOfInt(1), 0, <<>>, <<>>)

\* math.sin(x) and math.cos(x), of the C library: a float next to the sine
\* and to the cosine
SinFrom(x, s) ==
    Between(x.neg # s.neg, BigMul(x.mag, Minus(s.mag, SeriesError)), x.exp - FracBits,
            BigMul(x.mag, BigAdd(s.mag, SeriesError)), x.exp - FracBits)

sin(x) == IF x.mag = <<>> THEN {x} ELSE SinFrom(x, SinOver(x))

CosFrom(c) ==
    Between(c.neg, Minus(c.mag, SeriesError), 0 - FracBits,
            BigAdd(c.mag, SeriesError), 0 - FracBits)

cos(x) == IF x.mag = <<>> THEN {One} ELSE CosFrom(CosOf(x))

\* x ** 2, which is pow(x, 2.0) of the C library: a float next to the square
PowTwo(x) ==
    Between(FALSE, BigMul(x.mag, x.mag), 2 * x.exp, BigMul(x.mag, x.mag), 2 * x.exp)

\* math.sqrt(x) for x >= 0: the float nearest to the square root
SqrtFrom(n, r, e) == Double(Sticky(r, BigMul(r, r) # n), e \div 2 - 2)

SqrtOf(n, e) == SqrtFrom(n, Isqrt(n), e)

sqrt(x) ==
    IF x.mag = <<>> THEN x
    ELSE SqrtOf(ShiftLeft(x.mag, 120 + (x.exp % 2)), x.exp - 120 - (x.exp % 2))

\* the angle t of 0..pi/2 whose tangent is Y / X, for sizes X and Y and
\* k = 1 / sqrt(X^2 + Y^2): t <- t + k (Y cos t - X sin t), which is
\* t - sin(t - the angle), from pi/4 until the step is within the error of
\* the series
SinFix(t) == Series(FixMul(t, t), t, 1, <<>>, <<>>).mag

CosFix(t) == Series(FixMul(t, t), FixOfInt(1), 0, <<>>, <<>>).mag

RECURSIVE AngleFrom(_, _, _, _)
RECURSIVE AngleStep(_, _, _, _, _, _)
RECURSIVE AngleMove(_, _, _, _, _)
AngleFrom(X, Y, k, t) == AngleStep(X, Y, k, t, FixMul(Y, CosFix(t)), FixMul(X, SinFix(t)))

AngleStep(X, Y, k, t, a, b) ==
    IF BigLess(a, b) THEN AngleMove(X, Y, k, BigSub(t, FixMul(k, BigSub(b, a))),
                                    FixMul(k, BigSub(b, a)))
    ELSE AngleMove(X, Y, k, BigAdd(t, FixMul(k, BigSub(a, b))), FixMul(k, BigSub(a, b)))

AngleMove(X, Y, k, t, step) ==
    IF BigLess(step, SeriesError) THEN t ELSE AngleFrom(X, Y, k, t)

AngleOf(X, Y) ==
    AngleFrom(X, Y, Rsqrt(BigAdd(FixMul(X, X), FixMul(Y, Y))), BigDivSmall(Pi, 4))

\* math.atan2(y, x) of the C library for floats y >= 0 and x >= 0 that are
\* not both 0: a float next to the angle. An angle below 2^-30 is y / x
\* to 58 bits, y / x being q * 2^e for the size 1 / x' of the x' of 1..2
\* that is x * 2^sh; any other angle is taken from the two floats scaled by
\* 2^sh, which brings the greater of them to 1..2.
AtanNear(q, e) ==
    Between(FALSE, BigMul(q, BigSub(ShiftLeft(<<1>>, 58), <<1>>)), e - 58,
            BigMul(q, BigAdd(ShiftLeft(<<1>>, 58), <<1>>)), e - 58)

AtanSmall(y, x, sh) ==
    AtanNear(BigMul(y.mag, Recip(ToFix(x.mag, x.exp + sh))), y.exp + sh - FracBits)

AtanAround(t) ==
    Between(FALSE, Minus(t, BigMulSmall(SeriesError, 4)), 0 - FracBits,
            BigAdd(t, BigMulSmall(SeriesError, 4)), 0 - FracBits)

AtanScaled(y, x, sh) == AtanAround(AngleOf(ToFix(x.mag, x.exp + sh), ToFix(y.mag, y.exp + sh)))

Scale(big) == 0 - (BitLength(big.mag) - 1 + big.exp)

atan2(y, x) ==
    IF y.mag = <<>> THEN {Zero}
    ELSE IF x.mag # <<>> /\ FloatLess([y EXCEPT !.exp = y.exp + 30], x)
    THEN AtanSmall(y, x, Scale(x))
    ELSE AtanScaled(y, x, Scale(IF FloatLess(x, y) THEN y ELSE x))

\* math.radians(x)
radians(x) == FloatMul(x, DegToRad)

\* line 24: the values that a may take, from the sines of dlat/2 and dlon/2
\* and the two cosines
HaversineOf(sinlat, cos1, cos2, sinlon) ==
    {FloatAdd(h, FloatMul(FloatMul(c1, c2), q)) :
        h \in UNION {PowTwo(s) : s \in sinlat},
        c1 \in cos1, c2 \in cos2,
        q \in UNION {PowTwo(s) : s \in sinlon}}

\* lines 25-27: math.sqrt raises ValueError when the float a is below 0 or
\* 1 - a is; the distance is the float R * c in km
DistanceOf(a) ==
    IF FloatNegative(a) \/ FloatAboveOne(a)
    THEN {[exc |-> "ValueError", value |-> Zero]}
    ELSE {[exc |-> "", value |-> FloatMul(Float(FALSE, FromInt(EarthRadius), 0), FloatTwice(c))] :
             c \in atan2(sqrt(a), sqrt(FloatSub(One, a)))}

\* lines 18-27, float operation by float operation: what the call may
\* return for the coordinates c = <<u_lat, u_lon, v_lat, v_lon>>, which are
\* means <<sum, count>> in degrees
Haversine(lat1, lon1, lat2, lon2) ==
    UNION {DistanceOf(a) :
              a \in HaversineOf(sin(FloatHalf(FloatSub(lat2, lat1))), cos(lat1), cos(lat2),
                                sin(FloatHalf(FloatSub(lon2, lon1))))}

HaversineAt(c) ==
    Haversine(radians(FloatOf(c[1])), radians(FloatOf(c[2])),
              radians(FloatOf(c[3])), radians(FloatOf(c[4])))

\* the nodes A (0, 0), B (0, 1) and C (0, 2), as build_hvv_graph adds them
StationNodes ==
    AddClusterNodes(EmptyGraph, build_stop_clusters(StopsTable, {"s1", "s3", "s5"}).clusters)

\* the edges a graph may hold, in the order they are added
StationPairs == << << <<"A">>, <<"B">> >>, << <<"B">>, <<"C">> >>, << <<"C">>, <<"A">> >> >>

\* lines 11-14 for two nodes that have coordinates
Coordinates(g, u, v) == <<g.nattr[u].lat, g.nattr[u].lon, g.nattr[v].lat, g.nattr[v].lon>>

\* HaversineAt for the coordinates of every two stations of StationNodes,
\* the first of which comes first in the node list, worked out once
StationDistances ==
    {<<Coordinates(StationNodes, p[1], p[2]), HaversineAt(Coordinates(StationNodes, p[1], p[2]))>> :
        p \in {<<StationNodes.nodes[k[1]], StationNodes.nodes[k[2]]>> :
                  k \in {ij \in (DOMAIN StationNodes.nodes) \X (DOMAIN StationNodes.nodes) :
                            ij[1] < ij[2]}}}

HaversineFor(c) ==
    IF \E d \in StationDistances : d[1] = c
    THEN (CHOOSE d \in StationDistances : d[1] = c)[2]
    ELSE HaversineAt(c)

\* lines 11-27: the haversine distance, as the set of the outcomes that the
\* call may have (sin, cos, pow and atan2 of the C library return a float
\* next to the true value, which of them is up to the library). A node
\* without coordinates raises KeyError.
geographic_distance(g, u, v) ==
    IF ~({"lat", "lon"} \subseteq DOMAIN g.nattr[u] /\ {"lat", "lon"} \subseteq DOMAIN g.nattr[v])
    THEN {[exc |-> "KeyError", value |-> Zero]}
    ELSE HaversineFor(Coordinates(g, u, v))

\* min(xs) of a non-empty list
PyMin(xs) == CHOOSE m \in Range(xs) : \A x \in Range(xs) : m <= x

\* lines 33-37
travel_time_weight(g, u, v) ==
    LET travel_times == IF HasEdge(g, u, v)
                        THEN Get(g.eattr[EdgeKey(u, v)], "travel_time", <<>>)
                        ELSE <<>>
    IN  [exc |-> "", value |-> IF travel_times # <<>> THEN PyMin(travel_times) ELSE 60]

\* weight_func(G, u, v) for the functions task3.py passes; None is not callable
CallWeightFunc(f, g, u, v) ==
    IF f = "geographic_distance" THEN geographic_distance(g, u, v)
    ELSE IF f = "travel_time_weight" THEN {travel_time_weight(g, u, v)}
    ELSE {[exc |-> "TypeError", value |-> 0]}

\* G[u][v][key] = value
SetEdgeAttr(g, u, v, key, value) ==
    [g EXCEPT !.eattr[EdgeKey(u, v)] = (key :> value) @@ g.eattr[EdgeKey(u, v)]]

\* C12 mutant: the weight is the first sample, not the least
WeightStepFirst(g, f, wtype, u, v) ==
    IF wtype = "geographic"
    THEN {IF w.exc # "" THEN [exc |-> w.exc, g |-> g]
          ELSE [exc |-> "", g |-> SetEdgeAttr(g, u, v, "weight", w.value)] :
             w \in CallWeightFunc(f, g, u, v)}
    ELSE IF wtype = "time"
    THEN LET travel_times == Get(g.eattr[EdgeKey(u, v)], "travel_time", <<>>)
         IN  {[exc |-> "",
               g |-> SetEdgeAttr(g, u, v, "weight",
                                 IF travel_times # <<>> THEN travel_times[1] ELSE 60)]}
    ELSE {[exc |-> "", g |-> g]}

\* C15 mutant: an edge without samples is given an empty sample list
WeightStepSetDefault(g, f, wtype, u, v) ==
    LET travel_times == Get(g.eattr[EdgeKey(u, v)], "travel_time", <<>>)
        g1 == SetEdgeAttr(g, u, v, "travel_time", travel_times)
    IN  IF wtype = "geographic"
        THEN {IF w.exc # "" THEN [exc |-> w.exc, g |-> g1]
              ELSE [exc |-> "", g |-> SetEdgeAttr(g1, u, v, "weight", w.value)] :
                 w \in CallWeightFunc(f, g, u, v)}
        ELSE IF wtype = "time"
        THEN {[exc |-> "",
               g |-> SetEdgeAttr(g1, u, v, "weight",
                                 IF travel_times # <<>> THEN PyMin(travel_times) ELSE 60)]}
        ELSE {[exc |-> "", g |-> g1]}

\* lines 49-58: the body of the loop over G.edges(), for the edge (u, v): the
\* outcomes that it may have, one for each outcome of the weight function
WeightStep(g, f, wtype, u, v) ==
    IF wtype = "geographic"
    THEN {IF w.exc # "" THEN [exc |-> w.exc, g |-> g]
          ELSE [exc |-> "", g |-> SetEdgeAttr(g, u, v, "weight", w.value)] :
             w \in CallWeightFunc(f, g, u, v)}
    ELSE IF wtype = "time"
    THEN LET travel_times == Get(g.eattr[EdgeKey(u, v)], "travel_time", <<>>)
         IN  {[exc |-> "",
               g |-> SetEdgeAttr(g, u, v, "weight",
                                 IF travel_times # <<>> THEN PyMin(travel_times) ELSE 60)]}
    ELSE {[exc |-> "", g |-> g]}

\* C11 mutant: the loop ends after the first edge
WeightLoopFirstOnly(g, f, wtype, es) ==
    IF es = <<>> THEN {[exc |-> "", g |-> g]}
    ELSE WeightStep(g, f, wtype, Head(es)[1], Head(es)[2])

\* lines 48-59: the loop over the edges es, then return G: the outcomes that
\* the call may have
RECURSIVE WeightLoop(_, _, _, _)
WeightLoop(g, f, wtype, es) ==
    IF es = <<>> THEN {[exc |-> "", g |-> g]}
    ELSE UNION {IF it.exc # "" THEN {it} ELSE WeightLoop(it.g, f, wtype, Tail(es)) :
                   it \in WeightStep(g, f, wtype, Head(es)[1], Head(es)[2])}

add_edge_weights(g, f, wtype) == WeightLoop(g, f, wtype, Edges(g))

-----------------------------------------------------------------------------
(* The graphs add_edge_weights is run on, and its call *)

\* the attributes of an edge: as build_hvv_graph leaves them (samples whose
\* least is neither the first nor the last), with an earlier weight, with an
\* empty sample list, or without one
EdgeAttrChoices ==
    {[route_ids |-> {"R1"}, route_types |-> {402}, travel_time |-> <<5, 3, 5, 4>>],
     [route_ids |-> {"R1"}, route_types |-> {402}, travel_time |-> <<0>>, weight |-> 7],
     [route_ids |-> {"R1"}, route_types |-> {402}, travel_time |-> <<>>],
     [route_ids |-> {"R1"}, route_types |-> {402}]}

StationGraphs ==
    UNION {{WithEdges(StationNodes, SelectSeq(StationPairs, LAMBDA p : p \in E), c) :
               c \in [E -> EdgeAttrChoices]} :
           E \in SUBSET Range(StationPairs)}

\* the weight_func and weight_type arguments: those of task3.py, and a
\* weight_type that is neither
WeightFuncs == {"geographic_distance", "travel_time_weight", "None"}
WeightTypes == {"geographic", "time", "distance"}

\* line 48: G.edges() is taken
WeightsCall ==
    /\ fn = "add_edge_weights" /\ pc = "call"
    /\ edges' = Edges(G)
    /\ pc' = "run"
    /\ UNCHANGED <<G, fn, start, end, searchVars, result, allPairsVars, buildVars,
                   weight_func, weight_type>>

\* lines 48-58: one iteration of the loop
WeightsStep ==
    /\ fn = "add_edge_weights" /\ pc = "run" /\ edges # <<>>
    /\ \E it \in WeightStep(G, weight_func, weight_type, Head(edges)[1], Head(edges)[2]) :
           /\ G' = it.g
           /\ edges' = Tail(edges)
           /\ pc' = IF it.exc # "" THEN "done" ELSE "run"
           /\ result' = IF it.exc # "" THEN [exc |-> it.exc] ELSE result
    /\ UNCHANGED <<fn, start, end, searchVars, allPairsVars, buildVars,
                   weight_func, weight_type>>

\* line 59: return G
WeightsReturn ==
    /\ fn = "add_edge_weights" /\ pc = "run" /\ edges = <<>>
    /\ result' = [exc |-> ""]
    /\ pc' = "done"
    /\ UNCHANGED <<G, fn, start, end, searchVars, allPairsVars, buildVars, weightVars>>

\* add_edge_weights on a graph of stations
InitWeights ==
    /\ G \in StationGraphs
    /\ fn = "add_edge_weights" /\ pc = "call"
    /\ weight_func \in WeightFuncs /\ weight_type \in WeightTypes
    /\ edges = Unused
    /\ start = Unused /\ end = Unused
    /\ result = NoResult
    /\ IdleSearch /\ IdleAllPairs /\ IdleBuild

NextWeights == WeightsCall \/ WeightsStep \/ WeightsReturn

SpecWeights == InitWeights /\ [][NextWeights]_vars

-----------------------------------------------------------------------------
(* What the properties speak of: paths of a graph, stated on the edge set *)

\* u and v are joined by an edge of the graph
Joined(g, u, v) == {u, v} \in DOMAIN g.eattr

\* the simple paths of the graph that extend p (a simple path) to t
RECURSIVE PathsExtending(_, _, _)
PathsExtending(g, p, t) ==
    IF p[Len(p)] = t THEN {p}
    ELSE UNION {PathsExtending(g, Append(p, n), t) :
                   n \in {x \in DOMAIN g.adj \ Range(p) : Joined(g, p[Len(p)], x)}}

\* the simple paths from s to t; a path that repeats a node has at least the
\* edges, and under non-negative weights at least the cost, of a simple one
PathsBetween(g, s, t) ==
    IF s \in DOMAIN g.adj /\ t \in DOMAIN g.adj THEN PathsExtending(g, <<s>>, t) ELSE {}

IsReachable(g, s, t) == PathsBetween(g, s, t) # {}

\* the weight of an edge: its weight attribute, 1 when it has none
WeightOf(g, u, v) ==
    IF "weight" \in DOMAIN g.eattr[{u, v}] THEN g.eattr[{u, v}]["weight"] ELSE 1

\* the sum of the weights of a path's edges
RECURSIVE CostOfPath(_, _)
CostOfPath(g, p) ==
    IF Len(p) <= 1 THEN 0 ELSE WeightOf(g, p[1], p[2]) + CostOfPath(g, Tail(p))

\* the least cost of a path from s to t (t reachable from s)
LeastCost(g, s, t) ==
    LET costs == {CostOfPath(g, p) : p \in PathsBetween(g, s, t)}
    IN  CHOOSE c \in costs : \A d \in costs : c <= d

NonNegativeWeights(g) ==
    \A k \in DOMAIN g.eattr : "weight" \in DOMAIN g.eattr[k] => g.eattr[k]["weight"] >= 0

Returned == pc = "done" /\ result.exc = ""

-----------------------------------------------------------------------------
(* C1..C6: the searches *)

\* C1: on a graph of non-negative weights, for nodes start and end with end
\* reachable from start, dijkstra_shortest_path returns as cost the least
\* sum of edge weights over the paths from start to end.
C1_DijkstraCostIsLeast ==
    (fn = "dijkstra" /\ pc = "done" /\ NonNegativeWeights(G) /\ IsReachable(G, start, end))
        => /\ result.exc = ""
           /\ result.cost = LeastCost(G, start, end)

\* C1 witness: a search returned a cost below the weight of the edge that
\* joins start and end directly: the least path goes through a third node.
C1_Witness ==
    /\ fn = "dijkstra" /\ Returned
    /\ IsReachable(G, start, end) /\ Joined(G, start, end)
    /\ result.cost < WeightOf(G, start, end)
    /\ Len(result.path) = 3

\* C2: for nodes start and end with end reachable from start, the path
\* bfs_path returns has no more edges than any path from start to end,
\* in every neighbor iteration order.
C2_BfsPathIsShortest ==
    (fn = "bfs" /\ pc = "done" /\ IsReachable(G, start, end))
        => /\ result.exc = "" /\ result.path # <<>>
           /\ \A p \in PathsBetween(G, start, end) : Len(result.path) - 1 <= Len(p) - 1

\* C2 witness: bfs_path returned a path although the graph holds a longer
\* path between the same nodes, which start's first neighbor begins.
C2_Witness ==
    /\ fn = "bfs" /\ Returned /\ result.path # <<>>
    /\ \E p \in PathsBetween(G, start, end) :
          /\ Len(p) > Len(result.path)
          /\ p[2] = G.adj[start][1]

\* C3: all_pairs_shortest_paths returns one entry for each pair of distinct
\* nodes i before j of list(G.nodes()) that are reachable from each other,
\* under the key (i, j), no other entry, and each entry's cost is the cost
\* dijkstra_shortest_path returns for that pair.
C3_AllPairsEntries ==
    (fn = "all_pairs" /\ pc = "done")
        => /\ result.exc = ""
           /\ DOMAIN result.all_paths =
                 {<<G.nodes[i], G.nodes[j]>> : <<i, j>> \in
                     {x \in (1..Len(G.nodes)) \X (1..Len(G.nodes)) :
                         x[1] < x[2] /\ IsReachable(G, G.nodes[x[1]], G.nodes[x[2]])}}
           /\ \A k \in DOMAIN result.all_paths :
                 result.all_paths[k].cost = dijkstra_shortest_path(G, k[1], k[2]).cost

\* C3 witness: the sweep returned a mapping that holds a pair keyed in the
\* order of the node list where that is not the order of the names, and
\* that leaves out a pair whose nodes are not connected.
C3_Witness ==
    /\ fn = "all_pairs" /\ Returned
    /\ \E k \in DOMAIN result.all_paths : StrLess(k[2], k[1])
    /\ \E u \in DOMAIN G.adj, v \in DOMAIN G.adj :
          u # v /\ ~IsReachable(G, u, v)
          /\ <<u, v>> \notin DOMAIN result.all_paths /\ <<v, u>> \notin DOMAIN result.all_paths

\* C4 (as claimed): when start or end (or both, also start = end) is no node
\* of the graph, dijkstra_shortest_path returns no path and an infinite
\* distance, and raises nothing.
C4_AbsentNodeIsNoPath ==
    (fn = "dijkstra" /\ pc = "done" /\ (~HasNode(G, start) \/ ~HasNode(G, end)))
        => /\ result.exc = ""
           /\ result.path = <<>>
           /\ result.cost = INF

\* C5: when start and end are nodes and end is not reachable from start,
\* dijkstra_shortest_path returns no path (None) and +infinity.
C5_UnreachableIsNoPath ==
    (fn = "dijkstra" /\ pc = "done" /\ HasNode(G, start) /\ HasNode(G, end)
        /\ ~IsReachable(G, start, end))
        => /\ result.exc = ""
           /\ result.path = <<>>
           /\ result.cost = INF

\* C5 witness: a search between two nodes of different components returned,
\* after it had relaxed an edge of start's component.
C5_Witness ==
    /\ fn = "dijkstra" /\ Returned
    /\ HasNode(G, start) /\ HasNode(G, end) /\ ~IsReachable(G, start, end)
    /\ \E n \in DOMAIN G.adj : n # start /\ distances[n] < INF

\* C6: dfs_path and bfs_path return no path, and raise nothing, when start
\* or end is no node of the graph or end is not reachable from start; they
\* return a path when both are nodes and end is reachable from start.
C6_SearchOutcome ==
    (fn \in {"dfs", "bfs"} /\ pc = "done")
        => /\ result.exc = ""
           /\ (result.path # <<>>) <=> IsReachable(G, start, end)

\* C6 witness: dfs_path ran its stack empty without reaching a node of
\* another component, after it had visited a neighbor of start.
C6_Witness ==
    /\ fn = "dfs" /\ Returned /\ result.path = <<>>
    /\ HasNode(G, start) /\ HasNode(G, end)
    /\ stack = <<>> /\ Cardinality(visited) >= 2

-----------------------------------------------------------------------------
(* What the properties speak of: the trips of the tables, stated on the tables *)

\* the node of a stop: its stripped name; None for a stop that stops does
\* not hold or that has no name
NodeOfStop(t, sid) ==
    IF \E r \in Range(t.stops) : r.stop_id = sid /\ r.stop_name # PyNaN
    THEN Strip((CHOOSE r \in Range(t.stops) : r.stop_id = sid).stop_name)
    ELSE PyNone

\* the trips whose route passes the route-type filter
RetainedTrips(t) ==
    {tr \in Range(t.trips) :
        \E ro \in Range(t.routes) :
            /\ ro.route_id = tr.route_id
            /\ t.allowed_route_types.none \/ ro.route_type \in t.allowed_route_types.types}

\* the steps of a trip: its stop_times rows whose stop has a node with a
\* non-empty name, in ascending stop_sequence
StepsOf(t, id) ==
    LET R == {r \in Range(t.stop_times) :
                 r.trip_id = id /\ NodeOfStop(t, r.stop_id) \notin {PyNone, <<>>}}
    IN  [k \in 1..Cardinality(R) |->
            CHOOSE r \in R :
                Cardinality({q \in R : q.stop_sequence < r.stop_sequence}) = k - 1]

\* the trip goes from u to v in two consecutive steps
Traverses(t, id, u, v) ==
    \E k \in 1..(Len(StepsOf(t, id)) - 1) :
        /\ NodeOfStop(t, StepsOf(t, id)[k].stop_id) = u
        /\ NodeOfStop(t, StepsOf(t, id)[k + 1].stop_id) = v

\* the route_ids of the retained trips that go from u to v or from v to u
RoutesOver(t, u, v) ==
    {tr.route_id : tr \in {x \in RetainedTrips(t) :
                              Traverses(t, x.trip_id, u, v) \/ Traverses(t, x.trip_id, v, u)}}

\* the number of times x occurs in a list
Occurrences(xs, x) == Cardinality({i \in 1..Len(xs) : xs[i] = x})

-----------------------------------------------------------------------------
(* C7..C10: graph assembly *)

\* C7: in every state of the assembly, also between two steps of a trip, the
\* graph has no edge that joins a node to itself.
C7_NoSelfLoops ==
    fn = "build" =>
        /\ \A n \in DOMAIN G.adj : ~Contains(G.adj[n], n)
        /\ \A k \in DOMAIN G.eattr : Cardinality(k) = 2

\* C7 witness: the loop has just passed two consecutive rows of a trip that
\* name different stops of the same node.
C7_Witness ==
    /\ fn = "build" /\ pc = "edges" /\ bld.i >= 1
    /\ bld.cur.nodes[bld.i] = bld.cur.nodes[bld.i + 1]
    /\ LET steps == StepsOf(tables, Head(bld.trip_ids))
       IN  steps[bld.i].stop_id # steps[bld.i + 1].stop_id

\* C8: the assembled graph holds at most one edge per unordered pair of
\* nodes, an edge exactly for the pairs some retained trip traverses, and the
\* edge's route_ids are the route_ids of the retained trips that traverse the
\* pair in either direction.
C8_EdgeRouteIds ==
    (fn = "build" /\ Returned) =>
        /\ \A k \in DOMAIN G.eattr : k \subseteq DOMAIN G.adj
        /\ \A u \in DOMAIN G.adj, v \in DOMAIN G.adj :
              u # v =>
                 /\ Occurrences(G.adj[u], v) <= 1
                 /\ Contains(G.adj[u], v) <=> Joined(G, u, v)
                 /\ Joined(G, u, v) <=> RoutesOver(tables, u, v) # {}
                 /\ Joined(G, u, v) => G.eattr[{u, v}].route_ids = RoutesOver(tables, u, v)

\* C8 witness: the graph was assembled from a trip of route R1 from A to B
\* and a trip of route R2 from B to A, and the edge holds both routes.
C8_Witness ==
    /\ fn = "build" /\ Returned
    /\ Traverses(tables, 1, <<"A">>, <<"B">>) /\ Traverses(tables, 2, <<"B">>, <<"A">>)
    /\ G.eattr[{<<"A">>, <<"B">>}].route_ids = {"R1", "R2"}

\* the sample of a step: arrival minus departure, a day added once to a
\* negative difference
SampleOf(arrival, departure) ==
    IF arrival - departure < 0 THEN arrival - departure + 86400 ELSE arrival - departure

\* C9: the travel-time sample recorded for a step from u to v is the arrival
\* at v minus the departure from u in seconds, with 86400 added once when
\* the difference is negative; a departure at 23:58:00 and an arrival at
\* 00:02:00 or 24:02:00 give 240.
C9_TravelTimeSample ==
    (fn = "build" /\ pc = "edges" /\ bld.i >= 1) =>
        LET steps == StepsOf(tables, Head(bld.trip_ids))
            from == steps[bld.i]
            to == steps[bld.i + 1]
            u == NodeOfStop(tables, from.stop_id)
            v == NodeOfStop(tables, to.stop_id)
            samples == G.eattr[{u, v}].travel_time
        IN  u # v =>
               /\ Joined(G, u, v)
               /\ samples[Len(samples)] =
                     SampleOf(parse_gtfs_time(to.arrival_time).value,
                              parse_gtfs_time(from.departure_time).value)
               /\ (from.departure_time = T2358 /\ to.arrival_time \in {T0002, T2402})
                     => samples[Len(samples)] = 240

\* C9 witness: the step that leaves A at 23:58:00 and reaches B at 00:02:00
\* has been recorded with 240 seconds.
C9_Witness ==
    /\ fn = "build" /\ pc = "edges" /\ bld.i = 1
    /\ LET steps == StepsOf(tables, Head(bld.trip_ids))
       IN  /\ steps[1].departure_time = T2358 /\ steps[2].arrival_time = T0002
           /\ steps[1].arrival_time # steps[1].departure_time
           /\ G.eattr[{<<"A">>, <<"B">>}].travel_time = <<240>>

\* C10 (as claimed): every absent or unparseable timestamp (missing, empty,
\* not three fields, or three fields that are not integers) is parsed to 0
\* and the assembly goes on to return a graph.
C10_MalformedTimesAreZero ==
    fn = "build" =>
        /\ pc = "done" => result.exc = ""
        /\ pc = "edges" =>
              LET steps == StepsOf(tables, Head(bld.trip_ids))
              IN  \A k \in 1..Len(steps) :
                     /\ steps[k].arrival_time \in MalformedTimes => bld.cur.times[k][1] = 0
                     /\ steps[k].departure_time \in MalformedTimes => bld.cur.times[k][2] = 0

-----------------------------------------------------------------------------
(* C11..C15: the scenario, weighting, nodes and columns *)

\* C11 (as claimed): for the scenario of one trip over A, B, C that leaves A
\* at 08:00:00, reaches and leaves B at 08:05:00 and reaches C at 08:09:00,
\* assembly builds exactly the edges A-B with the sample 0 and B-C with the
\* sample 240, bfs_path(A, C) is [A, B, C], and under travel-time weighting
\* dijkstra_shortest_path(A, C) returns the cost 240.
C11_ScenarioAsClaimed ==
    (fn = "build" /\ Returned /\ tables \in ScenarioInputs) =>
        /\ DOMAIN G.eattr = {{<<"A">>, <<"B">>}, {<<"B">>, <<"C">>}}
        /\ G.eattr[{<<"A">>, <<"B">>}].travel_time = <<0>>
        /\ G.eattr[{<<"B">>, <<"C">>}].travel_time = <<240>>
        /\ bfs_path(G, <<"A">>, <<"C">>) = [exc |-> "", path |-> << <<"A">>, <<"B">>, <<"C">> >>]
        /\ \A weighted \in add_edge_weights(G, "None", "time") :
              dijkstra_shortest_path(weighted.g, <<"A">>, <<"C">>).cost = 240

\* C11 (amended): for that scenario assembly builds exactly the edges A-B with
\* the sample 300 and B-C with the sample 240, bfs_path(A, C) is [A, B, C],
\* and under travel-time weighting dijkstra_shortest_path(A, C) returns the
\* path [A, B, C] and the cost 540.
C11_Scenario ==
    (fn = "build" /\ Returned /\ tables \in ScenarioInputs) =>
        /\ DOMAIN G.eattr = {{<<"A">>, <<"B">>}, {<<"B">>, <<"C">>}}
        /\ G.eattr[{<<"A">>, <<"B">>}].travel_time = <<300>>
        /\ G.eattr[{<<"B">>, <<"C">>}].travel_time = <<240>>
        /\ bfs_path(G, <<"A">>, <<"C">>) = [exc |-> "", path |-> << <<"A">>, <<"B">>, <<"C">> >>]
        /\ \A weighted \in add_edge_weights(G, "None", "time") :
              dijkstra_shortest_path(weighted.g, <<"A">>, <<"C">>) =
                  [exc |-> "", path |-> << <<"A">>, <<"B">>, <<"C">> >>, cost |-> 540]

\* C11 witness: the scenario's graph has been assembled with the route filter
\* of task1.py, its three nodes and its two edges.
C11_Witness ==
    /\ fn = "build" /\ Returned /\ tables \in ScenarioInputs
    /\ ~tables.allowed_route_types.none
    /\ G.nodes = << <<"A">>, <<"B">>, <<"C">> >>
    /\ Cardinality(DOMAIN G.eattr) = 2
    /\ \E weighted \in add_edge_weights(G, "None", "time") :
          weighted.g.eattr[{<<"A">>, <<"B">>}].weight = 300

\* the call is made under the travel-time cost model: weight_type is "time",
\* or the weight function that the call applies is travel_time_weight
TravelTimeModel ==
    \/ weight_type = "time"
    \/ weight_type = "geographic" /\ weight_func = "travel_time_weight"

\* the least sample of an edge, 60 for an edge with no sample
LeastSample(attrs) ==
    IF "travel_time" \in DOMAIN attrs /\ attrs["travel_time"] # <<>>
    THEN CHOOSE m \in Range(attrs["travel_time"]) :
             \A i \in 1..Len(attrs["travel_time"]) : m <= attrs["travel_time"][i]
    ELSE 60

\* C12: under the travel-time cost model, after add_edge_weights every edge
\* of the graph has a weight, which is the least value of the edge's
\* travel-time samples, or 60 when the list is empty or absent.
C12_TravelTimeWeights ==
    (fn = "add_edge_weights" /\ pc = "done" /\ TravelTimeModel) =>
        /\ result.exc = ""
        /\ \A k \in DOMAIN G.eattr :
              /\ "weight" \in DOMAIN G.eattr[k]
              /\ G.eattr[k]["weight"] = LeastSample(G.eattr[k])

\* C12 witness: add_edge_weights returned on a graph with an edge whose least
\* sample 3 is not its first, an edge with an empty list and an edge with no
\* list, weighted 3, 60 and 60.
C12_Witness ==
    /\ fn = "add_edge_weights" /\ Returned /\ weight_type = "time"
    /\ \E a \in DOMAIN G.eattr, b \in DOMAIN G.eattr, c \in DOMAIN G.eattr :
          /\ Get(G.eattr[a], "travel_time", PyNone) = <<5, 3, 5, 4>> /\ G.eattr[a]["weight"] = 3
          /\ Get(G.eattr[b], "travel_time", PyNone) = <<>> /\ G.eattr[b]["weight"] = 60
          /\ "travel_time" \notin DOMAIN G.eattr[c] /\ G.eattr[c]["weight"] = 60

\* some retained trip has a stop_times row that names the stop
UsedByRetained(t, sid) ==
    \E tr \in RetainedTrips(t) :
        \E r \in Range(t.stop_times) : r.trip_id = tr.trip_id /\ r.stop_id = sid

\* C13: every node of the assembled graph has a member stop that a retained
\* trip's stop sequence names, and no member stop that only filtered-out
\* trips, or no trip, name; each member stop bears the node's name.
C13_NodesAreUsed ==
    (fn = "build" /\ pc # "call") =>
        \A n \in DOMAIN G.adj :
            /\ \E sid \in Range(G.nattr[n].stop_ids) : UsedByRetained(tables, sid)
            /\ \A sid \in Range(G.nattr[n].stop_ids) :
                  UsedByRetained(tables, sid) /\ NodeOfStop(tables, sid) = n

\* C13 witness: the graph was assembled with the route filter from a retained
\* trip and a filtered-out trip; a stop that only the filtered-out trip names
\* has a name that is no node, and the graph has a node.
C13_Witness ==
    /\ fn = "build" /\ Returned /\ G.nodes # <<>>
    /\ \E r \in Range(tables.stop_times) :
          /\ r.trip_id = 2 /\ ~UsedByRetained(tables, r.stop_id)
          /\ NodeOfStop(tables, r.stop_id) # PyNone
          /\ ~HasNode(G, NodeOfStop(tables, r.stop_id))

\* some table lacks one of its columns
ColumnMissing(t) == \E tab \in DOMAIN AllColumns : t.columns[tab] # AllColumns[tab]

\* C14 (as claimed): when a column of the tables is missing, the timestamp
\* columns of stop_times included, assembly ends with an error and returns
\* no graph.
C14_MissingColumnIsFatal ==
    (fn = "build" /\ pc = "done" /\ ColumnMissing(tables)) => result.exc # ""

\* the attributes of an edge other than its weight
OtherAttrs(attrs) == [key \in DOMAIN attrs \ {"weight"} |-> attrs[key]]

\* C15: no step of add_edge_weights, for any weight_type and weight_func,
\* changes the node set, the node attributes, the edge set, or an attribute of
\* an edge other than its weight (route_ids, route_types, travel_time).
C15_OnlyWeightChanges ==
    [][fn = "add_edge_weights" =>
          /\ G'.nodes = G.nodes /\ G'.adj = G.adj /\ G'.nattr = G.nattr
          /\ DOMAIN G'.eattr = DOMAIN G.eattr
          /\ \A k \in DOMAIN G.eattr : OtherAttrs(G'.eattr[k]) = OtherAttrs(G.eattr[k])]_vars

\* C15 witness: add_edge_weights returned under the geographic cost model and
\* has replaced the weight 7 of an edge, which has a sample list, by the
\* distance of one degree of longitude on the equator, the float
\* 111.19492664455873 = 0x6f31e6b66b7fb * 2^-44.
C15_Witness ==
    /\ fn = "add_edge_weights" /\ Returned
    /\ weight_type = "geographic" /\ weight_func = "geographic_distance"
    /\ Joined(G, <<"A">>, <<"B">>)
    /\ G.eattr[{<<"A">>, <<"B">>}] =
          [route_ids |-> {"R1"}, route_types |-> {402}, travel_time |-> <<0>>,
           weight |-> [neg |-> FALSE, mag |-> <<6139, 6965, 1946, 3558>>, exp |-> 0 - 44]]
    /\ \E k \in DOMAIN G.eattr : "travel_time" \notin DOMAIN G.eattr[k]

-----------------------------------------------------------------------------
(* C16..C17: the discipline of the searches *)

\* the entry that the next iteration pops is stale: its distance is greater
\* than the distance recorded for its node
StaleHead ==
    /\ queue # <<>>
    /\ Head(queue)[2] \in DOMAIN distances
    /\ Head(queue)[1] > distances[Head(queue)[2]]

\* C16: the iteration of dijkstra_shortest_path that pops a stale entry
\* relaxes no neighbor and pushes nothing: it leaves distances and
\* predecessors as they are and only removes the entry from the heap.
C16_StaleEntryIsSkipped ==
    [][(fn = "dijkstra" /\ pc = "run" /\ StaleHead) =>
          /\ distances' = distances
          /\ predecessors' = predecessors
          /\ queue' = Tail(queue)]_vars

\* C16 witness: the search is about to pop a stale entry of a node that has
\* end as a neighbor; end is still in the heap, at a distance that is greater
\* than the stale entry's.
C16_Witness ==
    /\ fn = "dijkstra" /\ pc = "run" /\ StaleHead
    /\ Contains(G.adj[Head(queue)[2]], end)
    /\ distances[end] > Head(queue)[1] /\ distances[end] < INF
    /\ \E i \in 2..Len(queue) : queue[i][2] = end

\* the depth-first search that marks a node visited when it pops it, pushes
\* every neighbor not yet marked, and keeps for each node the predecessor it
\* was first pushed from: the path it reaches e by, <<>> when it does not
RECURSIVE MarkOnPopLoop(_, _, _)
MarkOnPopLoop(g, e, st) ==
    IF st.stack = <<>> THEN <<>>
    ELSE LET current == st.stack[Len(st.stack)]
             marked == st.visited \cup {current}
             nbrs == SelectSeq(g.adj[current], LAMBDA n : n \notin marked)
             first == [n \in Range(nbrs) \ DOMAIN st.parent |-> current] @@ st.parent
         IN  IF current = e THEN ParentPath(st.parent, e)
             ELSE MarkOnPopLoop(g, e, [visited |-> marked, parent |-> first,
                                       stack |-> SubSeq(st.stack, 1, Len(st.stack) - 1) \o nbrs])

MarkOnPopDfs(g, s, e) ==
    IF ~HasNode(g, s) \/ ~HasNode(g, e) THEN <<>>
    ELSE MarkOnPopLoop(g, e, [visited |-> {}, parent |-> (s :> PyNone), stack |-> <<s>>])

\* C17 (as claimed): in dfs_path a node is marked visited when it is popped,
\* not when it is pushed, so that no node of the stack is marked; and the path
\* dfs_path returns is the path of the search that marks on pop, pushes every
\* unmarked neighbor and keeps first predecessors.
C17_DfsMarksOnPop ==
    fn = "dfs" =>
        /\ pc = "run" => \A i \in 1..Len(stack) : stack[i] \notin visited
        /\ pc = "done" => result.path = MarkOnPopDfs(G, start, end)

-----------------------------------------------------------------------------
(* C18..C20: the samples and the edges of the assembled graph *)

\* the samples of the first n steps of a trip that go from u to v or from v
\* to u, in the order of the steps
RECURSIVE TripSamples(_, _, _, _, _)
TripSamples(t, id, u, v, n) ==
    IF n <= 0 THEN <<>>
    ELSE LET steps == StepsOf(t, id)
             from == NodeOfStop(t, steps[n].stop_id)
             to == NodeOfStop(t, steps[n + 1].stop_id)
         IN  TripSamples(t, id, u, v, n - 1) \o
             (IF {from, to} = {u, v}
              THEN <<SampleOf(parse_gtfs_time(steps[n + 1].arrival_time).value,
                              parse_gtfs_time(steps[n].departure_time).value)>>
              ELSE <<>>)

\* the samples of all steps of the trips ids, trip after trip
RECURSIVE TripsSamples(_, _, _, _)
TripsSamples(t, ids, u, v) ==
    IF ids = <<>> THEN <<>>
    ELSE TripSamples(t, Head(ids), u, v, Len(StepsOf(t, Head(ids))) - 1) \o
         TripsSamples(t, Tail(ids), u, v)

\* the samples of the traversals of {u, v} so far: those of the trips whose
\* loop is over and, inside a trip's loop, those of its first bld.i steps
SamplesSoFar(u, v) ==
    LET ids == SortedInts({bld.st[i].trip_id : i \in 1..Len(bld.st)})
        over == SelectSeq(ids, LAMBDA id : ~Contains(bld.trip_ids, id))
    IN  TripsSamples(tables, over, u, v) \o
        (IF pc = "edges" THEN TripSamples(tables, Head(bld.trip_ids), u, v, bld.i) ELSE <<>>)

\* C18: in every state of the assembly, between two trips and between two
\* steps of a trip, the travel-time list of every edge {u, v} holds exactly
\* the samples of the traversals of that pair so far, in either direction, one
\* per traversal in the order of the traversals, equal values as often as they
\* occurred; a pair without a traversal has no edge.
C18_OneSamplePerTraversal ==
    (fn = "build" /\ pc # "call") =>
        \A u \in DOMAIN G.adj, v \in DOMAIN G.adj :
            u # v =>
               /\ Joined(G, u, v) <=> SamplesSoFar(u, v) # <<>>
               /\ Joined(G, u, v) => G.eattr[{u, v}].travel_time = SamplesSoFar(u, v)

\* C18 witness: two trips have traversed the pair A, B, in opposite
\* directions and with the same travel time, and the edge holds that sample
\* twice.
C18_Witness ==
    /\ fn = "build" /\ Returned
    /\ Traverses(tables, 1, <<"A">>, <<"B">>) /\ Traverses(tables, 2, <<"B">>, <<"A">>)
    /\ \E x \in 1..86400 : G.eattr[{<<"A">>, <<"B">>}].travel_time = <<x, x>>

\* the timestamps of the model that the format allows: HH:MM:SS, the hours
\* above 23 as well, or no value
AllowedTimes == {T0800, T0805, T0809, T2358, T0002, T2402, T2500, PyNaN, TEmpty}

\* C19 (as claimed): when every timestamp of stop_times is one the format
\* allows, every sample on every edge is greater than or equal to 0, in every
\* state of the assembly.
C19_SamplesNonNegative ==
    (fn = "build" /\ pc # "call"
        /\ \A r \in Range(tables.stop_times) :
              r.arrival_time \in AllowedTimes /\ r.departure_time \in AllowedTimes)
        => \A k \in DOMAIN G.eattr :
              \A i \in 1..Len(G.eattr[k].travel_time) : G.eattr[k].travel_time[i] >= 0

\* all stop_times rows of a trip, in ascending stop_sequence
RowsOf(t, id) ==
    LET rows == {r \in Range(t.stop_times) : r.trip_id = id}
    IN  [k \in 1..Cardinality(rows) |->
            CHOOSE r \in rows :
                Cardinality({q \in rows : q.stop_sequence < r.stop_sequence}) = k - 1]

\* two rows that are next to each other in the stop sequence of a retained
\* trip have the nodes u and v
AdjacentRecords(t, u, v) ==
    \E tr \in RetainedTrips(t) :
        \E k \in 1..(Len(RowsOf(t, tr.trip_id)) - 1) :
            {NodeOfStop(t, RowsOf(t, tr.trip_id)[k].stop_id),
             NodeOfStop(t, RowsOf(t, tr.trip_id)[k + 1].stop_id)} = {u, v}

\* every stop that a row of a retained trip names has a node in the
\* stop-to-node map (the node of the empty name is one)
EveryStopMapped(t) ==
    \A tr \in RetainedTrips(t) :
        \A k \in 1..Len(RowsOf(t, tr.trip_id)) :
            NodeOfStop(t, RowsOf(t, tr.trip_id)[k].stop_id) # PyNone

\* C20 (as claimed, on inputs where every stop of a retained trip has a
\* node): every edge joins the nodes of two stop_times rows that are next to
\* each other in the stop sequence of a retained trip, so that a row whose
\* node is the empty name never links the rows before and after it.
C20_EdgesJoinAdjacentRecords ==
    (fn = "build" /\ pc # "call" /\ EveryStopMapped(tables)) =>
        \A u \in DOMAIN G.adj, v \in DOMAIN G.adj :
            Joined(G, u, v) => AdjacentRecords(tables, u, v)

-----------------------------------------------------------------------------
(* C21..C22: the paths the searches return, and that they return *)

\* p is a path of the graph from s to e that holds no node twice
IsSimplePath(g, p, s, e) ==
    /\ p # <<>> /\ p[1] = s /\ p[Len(p)] = e
    /\ \A i \in 1..Len(p), j \in 1..Len(p) : p[i] = p[j] => i = j
    /\ \A i \in 1..(Len(p) - 1) : Joined(g, p[i], p[i + 1])

\* C21: whenever dfs_path, bfs_path or dijkstra_shortest_path returns a path,
\* the path begins with start, ends with end, holds no node twice and goes
\* along edges of the graph; the cost dijkstra_shortest_path returns with it
\* is the sum of the weights of the path's edges; for start = end the path is
\* [start] and the cost is 0.
C21_ReturnedPathIsSound ==
    (fn \in {"dfs", "bfs", "dijkstra"} /\ Returned /\ result.path # <<>>) =>
        /\ IsSimplePath(G, result.path, start, end)
        /\ fn = "dijkstra" => result.cost = CostOfPath(G, result.path)
        /\ start = end =>
              /\ result.path = <<start>>
              /\ fn = "dijkstra" => result.cost = 0

\* C21 witness: dijkstra_shortest_path returned a path of two edges to a node
\* that start has an edge to, of a greater weight than the cost: the node was
\* given a second predecessor.
C21_Witness ==
    /\ fn = "dijkstra" /\ Returned /\ Len(result.path) = 3
    /\ Joined(G, start, end)
    /\ G.adj[start][1] = end
    /\ result.cost < WeightOf(G, start, end)
    /\ result.cost = CostOfPath(G, result.path)

\* the stack of dfs_path, the deque of bfs_path
Frontier == IF fn = "dfs" THEN stack ELSE queue

\* what the step has pushed: the end of the stack or of the deque past the
\* entries that were there before it
Pushed ==
    IF fn = "dfs" THEN SubSeq(stack', Len(stack), Len(stack'))
    ELSE SubSeq(queue', Len(queue), Len(queue'))

\* the nodes whose recorded distance the step has lowered
Lowered == {n \in DOMAIN distances : distances'[n] < distances[n]}

\* C22: on every graph with non-negative weights, for start and end nodes of
\* the graph, the call of dfs_path, bfs_path or dijkstra_shortest_path
\* eventually returns without raising; a step of dfs_path or bfs_path pushes
\* only nodes that were never pushed before, each once; a step of
\* dijkstra_shortest_path pushes one entry for each node whose recorded
\* distance it has strictly lowered, and no other.
C22_SearchesReturn ==
    /\ (fn \in {"dfs", "bfs", "dijkstra"} /\ pc = "call"
           /\ HasNode(G, start) /\ HasNode(G, end) /\ NonNegativeWeights(G))
          ~> (pc = "done" /\ result.exc = "")
    /\ [][(fn \in {"dfs", "bfs"} /\ pc = "run" /\ Frontier # <<>>) =>
             /\ \A i \in 1..Len(Pushed) : Pushed[i] \notin visited
             /\ \A i \in 1..Len(Pushed), j \in 1..Len(Pushed) : Pushed[i] = Pushed[j] => i = j
             /\ visited' = visited \cup Range(Pushed)]_vars
    /\ [][(fn = "dijkstra" /\ pc = "run" /\ queue # <<>>) =>
             /\ \A n \in DOMAIN distances : distances'[n] <= distances[n]
             /\ Len(queue') = Len(queue) - 1 + Cardinality(Lowered)
             /\ \A n \in Lowered : Contains(queue', <<distances'[n], n>>)]_vars

\* C22 witness: dfs_path returned a path on popping end, with every node of
\* the graph pushed and nodes left on the stack; an edge of the graph joins
\* two nodes that were both pushed before either was popped.
C22_Witness ==
    /\ fn = "dfs" /\ Returned /\ result.path # <<>>
    /\ visited = DOMAIN G.adj /\ Cardinality(visited) >= 3
    /\ stack # <<>>
    /\ \E i \in 1..Len(stack) : Joined(G, stack[i], end)

====
